---------------------------- MODULE Spec2Model ----------------------------
(***************************************************************************)
(* Model of the extension bundle of roboFontExtensionBundle:               *)
(* Lib/extensionBundle.py (the dataclass ExtensionBundle with load, save   *)
(* and validate).                                                          *)
(*                                                                         *)
(* Python values are modelled as one-field records whose field name is the *)
(* Python type, so that values of different types can be compared:         *)
(*   None = [none |-> TRUE], "a" = [str |-> "a"], True = [bool |-> TRUE],  *)
(*   3 = [int |-> 3], 1.0 = [float |-> 1], [..] = [list |-> <<..>>],       *)
(*   (..) = [tuple |-> <<..>>], {..} = [dict |-> function].                *)
(***************************************************************************)
EXTENDS Integers, Sequences, FiniteSets, TLC

VARIABLES bundle, fs, tmp, pc, args, call, result, now, written

vars == <<bundle, fs, tmp, pc, args, call, result, now, written>>

(***************************************************************************)
(* Bounds of the model.                                                    *)
(***************************************************************************)
\* the number of calls of save that pass the preconditions; the k-th of them
\* reads the time k from the clock
MaxSaves == 2
\* the number of files under a bundle root that is hashed
MaxFiles == 4
\* the number of lines of a requirements text
MaxLines == 3

(***************************************************************************)
(* Python values.                                                          *)
(***************************************************************************)
PyNone == [none |-> TRUE]
PyStr(s) == [str |-> s]
PyBool(x) == [bool |-> x]
PyInt(n) == [int |-> n]
PyFloat(n) == [float |-> n]
PyList(s) == [list |-> s]
PyTuple(s) == [tuple |-> s]
PyDict(f) == [dict |-> f]

TypeOf(x) == CHOOSE t \in DOMAIN x : TRUE
IsNone(x) == DOMAIN x = {"none"}
IsStr(x) == DOMAIN x = {"str"}
IsBool(x) == DOMAIN x = {"bool"}
\* isinstance(x, int): bool is a subclass of int
IsInt(x) == DOMAIN x = {"int"} \/ DOMAIN x = {"bool"}
IsList(x) == DOMAIN x = {"list"}
IsTuple(x) == DOMAIN x = {"tuple"}
IsDict(x) == DOMAIN x = {"dict"}

\* bool(x): the truth value Python gives to x
Truthy(x) ==
    CASE IsNone(x) -> FALSE
      [] IsStr(x) -> x.str # ""
      [] IsBool(x) -> x.bool
      [] DOMAIN x = {"int"} -> x.int # 0
      [] DOMAIN x = {"float"} -> x.float # 0
      [] IsList(x) -> x.list # <<>>
      [] IsTuple(x) -> x.tuple # <<>>
      [] IsDict(x) -> DOMAIN x.dict # {}

\* a dict restricted to the keys in ks
Restrict(f, ks) == [k \in ks |-> f[k]]

\* dict.get(key, default)
Get(d, k, default) == IF k \in DOMAIN d THEN d[k] ELSE default

(***************************************************************************)
(* Paths.  A bundle root is an atom; Suffix is Path.suffix on these atoms. *)
(***************************************************************************)
fileExtension == ".roboFontExt"

\* the bundle roots of the modelled file system
Roots == {"A.roboFontExt", "B.roboFontExt"}
\* paths that save can be asked to write to
DestPaths == Roots \cup {"C.zip"}
\* Optional[Path]: a path or None
NoPath == "None"

Suffix(p) ==
    CASE p \in Roots -> ".roboFontExt"
      [] p = "C.zip" -> ".zip"
      [] OTHER -> ""

\* a folder: a sub folder of a bundle root, or a folder of sources
FolderPath(root, seg) == [root |-> root, seg |-> seg]
NoFolder == FolderPath(NoPath, "")

(***************************************************************************)
(* File system content.                                                    *)
(***************************************************************************)
\* a directory with its files (relative name -> bytes), or no directory
Dir(files) == [exists |-> TRUE, files |-> files]
NoDir == [exists |-> FALSE, files |-> <<>>]
\* a text file, or no file
TextFile(text) == [exists |-> TRUE, text |-> text]
NoFile == [exists |-> FALSE, text |-> ""]
\* info.plist: a property list (key -> value), unparseable bytes, or no file
PlistFile(d) == [exists |-> TRUE, parses |-> TRUE, dict |-> d]
GarbagePlist == [exists |-> TRUE, parses |-> FALSE, dict |-> <<>>]
NoPlist == [exists |-> FALSE, parses |-> FALSE, dict |-> <<>>]

\* the entries a bundle tree can hold
Entries == {"lib", "html", "resources", "info.plist", "license",
            "requirements.txt", ".hash"}

NoEntry(e) ==
    CASE e \in {"lib", "html", "resources"} -> NoDir
      [] e = "info.plist" -> NoPlist
      [] OTHER -> NoFile

\* a directory tree at a root: whether the directory exists, and its entries
EmptyTree == [exists |-> TRUE, entry |-> [e \in Entries |-> NoEntry(e)]]
NoTree == [exists |-> FALSE, entry |-> [e \in Entries |-> NoEntry(e)]]

\* the entries present in a tree
Present(tree) == {e \in Entries : tree.entry[e].exists}

\* the folders of sources that a caller can hand to save
SourceFolders ==
    (FolderPath("source", "code") :> Dir(("main.py" :> "ok")))
    @@ (FolderPath("source", "documentation") :> Dir(("index.md" :> "doc")))
    @@ (FolderPath("source", "resources") :> Dir(("icon.png" :> "png")))
    @@ (FolderPath("source", "missing") :> NoDir)

\* the directory at a folder path
FolderAt(files, f) ==
    IF f \in DOMAIN SourceFolders THEN SourceFolders[f]
    ELSE IF f.root \in Roots /\ files[f.root].exists
              /\ f.seg \in {"lib", "html", "resources"}
         THEN files[f.root].entry[f.seg]
         ELSE NoDir

\* Path.exists() of a bundle root
RootExists(files, p) == p \in Roots /\ files[p].exists

(***************************************************************************)
(* The bundle object: the fields of the dataclass ExtensionBundle.         *)
(***************************************************************************)
\* the keys of infoDictionary, in the order of the mapping
InfoKeys == {"name", "developer", "developerURL", "launchAtStartUp",
             "mainScript", "version", "addToMenu", "html",
             "documentationURL", "uninstallScript", "timeStamp",
             "requiresVersionMajor", "requiresVersionMinor", "expireDate"}

\* the dataclass field behind a key of infoDictionary
AttrOf(k) == IF k = "name" THEN "extensionName" ELSE k

\* ExtensionBundle(): every field at its default
DefaultBundle ==
    [extensionName |-> PyNone, developer |-> PyNone, developerURL |-> PyNone,
     launchAtStartUp |-> PyNone, mainScript |-> PyNone, version |-> PyNone,
     addToMenu |-> PyList(<<>>), path |-> NoPath, html |-> PyNone,
     documentationURL |-> PyNone, uninstallScript |-> PyNone,
     timeStamp |-> PyNone, hash |-> "", requiresVersionMajor |-> PyNone,
     requiresVersionMinor |-> PyNone, expireDate |-> PyNone, license |-> "",
     requirements |-> "", errors |-> <<>>]

\* ExtensionBundle(**kw): the fields named in kw, the others at their default
ExtensionBundle(kw) ==
    [f \in DOMAIN DefaultBundle |->
        IF f \in DOMAIN kw THEN kw[f] ELSE DefaultBundle[f]]

\* the property bundlePath
BundlePath(b) ==
    IF b.path = NoPath
    THEN IF Truthy(b.extensionName) /\ IsStr(b.extensionName)
         THEN b.extensionName.str
         ELSE "extension"
    ELSE b.path

\* the properties libFolder, htmlFolder, resourcesFolder
LibFolder(b) == FolderPath(BundlePath(b), "lib")
HtmlFolder(b) == FolderPath(BundlePath(b), "html")
ResourcesFolder(b) == FolderPath(BundlePath(b), "resources")

\* the property infoDictionary: the fields that are not None
InfoDictionary(b) ==
    LET keys == {k \in InfoKeys : b[AttrOf(k)] # PyNone}
    IN  [k \in keys |-> b[AttrOf(k)]]

(***************************************************************************)
(* plistlib: what dumps followed by loads makes of a value.  A tuple is    *)
(* written as an array and read back as a list; None cannot be written.    *)
(***************************************************************************)
RECURSIVE PlistWritable(_)
PlistWritable(x) ==
    CASE IsNone(x) -> FALSE
      [] IsList(x) -> \A i \in 1..Len(x.list) : PlistWritable(x.list[i])
      [] IsTuple(x) -> \A i \in 1..Len(x.tuple) : PlistWritable(x.tuple[i])
      [] IsDict(x) -> \A k \in DOMAIN x.dict : PlistWritable(x.dict[k])
      [] OTHER -> TRUE

RECURSIVE PlistValue(_)
PlistValue(x) ==
    CASE IsList(x) -> PyList([i \in 1..Len(x.list) |-> PlistValue(x.list[i])])
      [] IsTuple(x) ->
            PyList([i \in 1..Len(x.tuple) |-> PlistValue(x.tuple[i])])
      [] IsDict(x) -> PyDict([k \in DOMAIN x.dict |-> PlistValue(x.dict[k])])
      [] OTHER -> x

\* the dict save hands to plistlib.dumps: the entries with a true value
TruthyItems(d) == Restrict(d, {k \in DOMAIN d : Truthy(d[k])})

\* plistlib.loads(plistlib.dumps(d)) for a dict d of writable values
PlistDumps(d) == [k \in DOMAIN d |-> PlistValue(d[k])]

(***************************************************************************)
(* load                                                                    *)
(***************************************************************************)
\* the keys load reads with plist[...]: those read before addToMenu is built,
\* and all of them
SubscriptedFirst == {"developer", "developerURL", "launchAtStartUp",
                     "mainScript", "version"}
SubscriptedKeys == SubscriptedFirst \cup {"html"}

\* [AddToMenuDict(i) for i in plist.get("addToMenu", [])] raises unless the
\* value is a list of dicts
AddToMenuLoads(plist) ==
    LET menu == Get(plist, "addToMenu", PyList(<<>>))
    IN  IsList(menu) /\ \A i \in 1..Len(menu.list) : IsDict(menu.list[i])

\* plist.get("name") or plist.get("extensionName")
LoadedName(plist) ==
    IF Truthy(Get(plist, "name", PyNone)) THEN plist["name"]
    ELSE Get(plist, "extensionName", PyNone)

\* ExtensionBundle.load(bundlePath): the exception raised ("" when none) and
\* the bundle returned
Load(files, bundlePath) ==
    LET tree == IF bundlePath \in Roots THEN files[bundlePath] ELSE NoTree
        file == IF tree.exists THEN tree.entry["info.plist"] ELSE NoPlist
        plist == file.dict
        text(e) == IF tree.entry[e].exists THEN tree.entry[e].text ELSE ""
    IN  IF ~file.exists
        THEN [raised |-> "AssertionError", bundle |-> DefaultBundle]
        ELSE IF ~file.parses
        THEN [raised |-> "InvalidFileException", bundle |-> DefaultBundle]
        ELSE IF ~(SubscriptedFirst \subseteq DOMAIN plist)
        THEN [raised |-> "KeyError", bundle |-> DefaultBundle]
        ELSE IF ~AddToMenuLoads(plist)
        THEN [raised |-> "TypeError", bundle |-> DefaultBundle]
        ELSE IF ~(SubscriptedKeys \subseteq DOMAIN plist)
        THEN [raised |-> "KeyError", bundle |-> DefaultBundle]
        ELSE [raised |-> "",
              bundle |->
                [extensionName |-> LoadedName(plist),
                 path |-> bundlePath,
                 developer |-> plist["developer"],
                 developerURL |-> plist["developerURL"],
                 launchAtStartUp |-> plist["launchAtStartUp"],
                 mainScript |-> plist["mainScript"],
                 version |-> plist["version"],
                 addToMenu |-> Get(plist, "addToMenu", PyList(<<>>)),
                 html |-> plist["html"],
                 hash |-> text(".hash"),
                 documentationURL |-> Get(plist, "documentationURL", PyNone),
                 uninstallScript |-> Get(plist, "uninstallScript", PyNone),
                 timeStamp |-> Get(plist, "timeStamp", PyNone),
                 requiresVersionMajor |->
                    Get(plist, "requiresVersionMajor", PyNone),
                 requiresVersionMinor |->
                    Get(plist, "requiresVersionMinor", PyNone),
                 expireDate |-> Get(plist, "expireDate", PyNone),
                 license |-> text("license"),
                 requirements |-> text("requirements.txt"),
                 errors |-> <<>>]]

(***************************************************************************)
(* validate                                                                *)
(***************************************************************************)
\* urlparse(url): scheme and netloc of the texts the model uses
UrlParts(s) ==
    CASE s = "https://example.com" ->
            [scheme |-> "https", netloc |-> "example.com"]
      [] s = "http://typemytype.com" ->
            [scheme |-> "http", netloc |-> "typemytype.com"]
      [] s = "https://a.com https://a.com" ->
            [scheme |-> "https", netloc |-> "a.com https:"]
      [] s = "www.foobar.com" -> [scheme |-> "", netloc |-> ""]
      [] OTHER -> [scheme |-> "", netloc |-> ""]

\* isValidURL(url): urlparse raises on a value that is not text, which
\* isValidURL turns into False
isValidURL(url) ==
    IF IsStr(url)
    THEN UrlParts(url.str).scheme # "" /\ UrlParts(url.str).netloc # ""
    ELSE FALSE

\* datetime.strptime(text, "%Y-%m-%d") succeeds
MatchesExpireDateFormat(s) == s \in {"2019-01-01", "3000-01-01"}

\* the file names the glob "**/*.py" matches
IsPyFile(name) == name \in {"main.py", "bad.py", "fileAdded.py"}

\* compile(...) raises SyntaxError on these bytes
HasSyntaxError(bytes) == bytes = "syntax error"

\* pyPath.read_text() raises UnicodeDecodeError on these bytes
IsUndecodable(bytes) == bytes = "not utf-8"

\* isinstance(attribute, types) for the types of additionalKeys
AdditionalKeyTypeOk(k, x) ==
    IF k \in {"html", "launchAtStartUp"} THEN IsInt(x) ELSE IsStr(x)

AttributeRepr(k) ==
    CASE k = "html" -> "html"
      [] k = "documentationURL" -> "Documentation URL"
      [] k = "launchAtStartUp" -> "Launch at startup"
      [] k = "mainScript" -> "Main script"
      [] k = "requiresVersionMajor" -> "Requires version major"
      [] k = "requiresVersionMinor" -> "Requires version minor"
      [] k = "uninstallScript" -> "Uninstall Script"

\* the types of additionalKeys as the message shows them
TypesRepr(k) ==
    IF k \in {"html", "launchAtStartUp"} THEN "(bool, int)" ELSE "str"

\* zero or one message
MsgIf(cond, msg) == IF cond THEN <<msg>> ELSE <<>>

\* the check of one required field (lines 404-410)
RequiredFieldErrors(name, attribute) ==
    IF ~IsStr(attribute) THEN <<name \o " should be a string">>
    ELSE MsgIf(attribute.str = "", name \o " cannot be an empty string")

\* the checks of one entry of addToMenu (lines 416-435)
MenuKeyErrors(add, key) ==
    IF key \notin DOMAIN add
    THEN <<key \o " missing from Add to Menu dictionary">>
    ELSE MsgIf(~IsStr(add[key]),
               "Add to Menu " \o key \o " should be a str")

MenuEntryErrors(entry) ==
    LET add == entry.dict
        nest == Get(add, "nestInSubmenus", PyNone)
    IN  MenuKeyErrors(add, "path") \o MenuKeyErrors(add, "preferredName")
        \o (IF "shortKey" \notin DOMAIN add
            THEN <<"shortKey missing from Add to Menu dictionary">>
            ELSE MsgIf(~(IsStr(add["shortKey"]) \/ IsTuple(add["shortKey"])),
                       "Add to Menu shortKey should be a str or a tuple"))
        \o MsgIf(Truthy(nest) /\ ~IsInt(nest),
                 "Add to Menu nestInSubmenus should be a bool or a int")

\* the messages of the entries in turn; the loop ends at an entry that is
\* no dict, where validate raises
RECURSIVE MenuErrors(_)
MenuErrors(entries) ==
    IF entries = <<>> \/ ~IsDict(Head(entries)) THEN <<>>
    ELSE MenuEntryErrors(Head(entries)) \o MenuErrors(Tail(entries))

\* one message per file of the lib folder that does not compile
RECURSIVE SyntaxErrors(_, _)
SyntaxErrors(files, names) ==
    IF names = {} THEN <<>>
    ELSE LET n == CHOOSE n \in names : TRUE
         IN  MsgIf(IsPyFile(n) /\ HasSyntaxError(files[n]), "invalid syntax")
             \o SyntaxErrors(files, names \ {n})

\* the step of validate at which a value raises instead of being reported:
\* an entry of addToMenu that is no dict (key in 5, or add.get), a script
\* name that is no text joined to the lib folder, a .py file of the lib
\* folder that read_text cannot decode, an expireDate that is no text handed
\* to strptime
MenuRaises(b) ==
    IsList(b.addToMenu)
    /\ \E i \in 1..Len(b.addToMenu.list) : ~IsDict(b.addToMenu.list[i])
ScriptRaises(x) == Truthy(x) /\ ~IsStr(x)
ReadTextRaises(lib) ==
    lib.exists
    /\ \E n \in DOMAIN lib.files : IsPyFile(n) /\ IsUndecodable(lib.files[n])
ExpireDateRaises(b) == Truthy(b.expireDate) /\ ~IsStr(b.expireDate)

\* the messages of the first checks of validate
MustBeSaved ==
    "Extension bundle must be saved on disk before it can be validated."
WrongSuffix == "Extension bundle must be saved with .roboFontExt suffix."
NoInfoPlist == "info.plist does not exist, this is required."
UnreadableInfoPlist ==
    "info.plist is not formatted as a *.plist file and unreadable."

\* the first checks with the suffix tested before the existence of the root
ExistenceGateSuffixFirst(root, tree) ==
    LET suffixErr == MsgIf(Suffix(root) # fileExtension, WrongSuffix)
    IN  IF ~tree.exists
        THEN [stop |-> TRUE, errors |-> suffixErr \o <<MustBeSaved>>]
        ELSE IF ~tree.entry["info.plist"].exists
        THEN [stop |-> TRUE, errors |-> suffixErr \o <<NoInfoPlist>>]
        ELSE IF ~tree.entry["info.plist"].parses
        THEN [stop |-> TRUE, errors |-> suffixErr \o <<UnreadableInfoPlist>>]
        ELSE [stop |-> FALSE, errors |-> suffixErr]

\* the first checks of validate (lines 377-396): the messages they append
\* and whether validate returns there
ExistenceGate(root, tree) ==
    LET suffixErr == MsgIf(Suffix(root) # fileExtension, WrongSuffix)
    IN  IF ~tree.exists
        THEN [stop |-> TRUE, errors |-> <<MustBeSaved>>]
        ELSE IF ~tree.entry["info.plist"].exists
        THEN [stop |-> TRUE, errors |-> suffixErr \o <<NoInfoPlist>>]
        ELSE IF ~tree.entry["info.plist"].parses
        THEN [stop |-> TRUE, errors |-> suffixErr \o <<UnreadableInfoPlist>>]
        ELSE [stop |-> FALSE, errors |-> suffixErr]

\* validate(): the messages in self._errors in the order the checks append
\* them, and the exception raised ("" when validate returns)
Validate(b, files) ==
    LET root == BundlePath(b)
        tree == IF root \in DOMAIN files THEN files[root] ELSE NoTree
        gate == ExistenceGate(root, tree)
        lib == IF tree.exists THEN tree.entry["lib"] ELSE NoDir
        scriptMissing(x) ==
            Truthy(x) /\ IsStr(x) /\ ~(lib.exists /\ x.str \in DOMAIN lib.files)
        required ==
            RequiredFieldErrors("Extension name", b.extensionName)
            \o RequiredFieldErrors("Developer name", b.developer)
            \o RequiredFieldErrors("Developer URL", b.developerURL)
            \o RequiredFieldErrors("Extension version", b.version)
        menu ==
            IF ~IsList(b.addToMenu)
            THEN <<"Add to Menu should be a list">>
            ELSE MenuErrors(b.addToMenu.list)
        additional(k) ==
            MsgIf(Truthy(b[k]) /\ ~AdditionalKeyTypeOk(k, b[k]),
                  AttributeRepr(k) \o " should be a " \o TypesRepr(k))
        typed ==
            additional("html") \o additional("documentationURL")
            \o additional("launchAtStartUp") \o additional("mainScript")
            \o additional("requiresVersionMajor")
            \o additional("requiresVersionMinor")
            \o additional("uninstallScript")
        flag(k) ==
            MsgIf(IsInt(b[k]) /\ b[k] \notin {PyInt(0), PyInt(1),
                                               PyBool(FALSE), PyBool(TRUE)},
                  k \o " can be an int, but it should be either 0 or 1")
        libErr ==
            MsgIf(~lib.exists, "Lib folder does not exist, this is required.")
        mainErr ==
            MsgIf(scriptMissing(b.mainScript),
                  "Main .py script does not exist, this is required.")
        uninstallErr ==
            MsgIf(scriptMissing(b.uninstallScript),
                  "Uninstall script does not exist, since it is defined, it is required")
        syntax ==
            IF lib.exists THEN SyntaxErrors(lib.files, DOMAIN lib.files)
            ELSE <<>>
        docURL ==
            MsgIf(Truthy(b.documentationURL) /\ ~isValidURL(b.documentationURL),
                  "Documentation URL is not valid")
        devURL ==
            MsgIf(Truthy(b.developerURL) /\ ~isValidURL(b.developerURL),
                  "Developer URL is not valid")
        expire ==
            MsgIf(Truthy(b.expireDate) /\ IsStr(b.expireDate)
                    /\ ~MatchesExpireDateFormat(b.expireDate.str),
                  "expire date is not set in the correct format: YYYY-MM-DD. ")
        uptoMenu == gate.errors \o required \o menu
        uptoLib == uptoMenu \o typed \o flag("html") \o flag("launchAtStartUp")
                   \o libErr
        uptoMain == uptoLib \o mainErr
        uptoUninstall == uptoMain \o uninstallErr
        uptoURLs == uptoUninstall \o syntax \o docURL \o devURL
    IN  IF gate.stop
        THEN [raised |-> "", errors |-> gate.errors]
        ELSE IF MenuRaises(b)
        THEN [raised |-> "TypeError", errors |-> uptoMenu]
        ELSE IF ScriptRaises(b.mainScript)
        THEN [raised |-> "TypeError", errors |-> uptoLib]
        ELSE IF ScriptRaises(b.uninstallScript)
        THEN [raised |-> "TypeError", errors |-> uptoMain]
        ELSE IF ReadTextRaises(lib)
        THEN [raised |-> "UnicodeDecodeError", errors |-> uptoUninstall]
        ELSE IF ExpireDateRaises(b)
        THEN [raised |-> "TypeError", errors |-> uptoURLs]
        ELSE [raised |-> "", errors |-> uptoURLs \o expire]

\* the value validate returns: not bool(self._errors)
ValidateOk(b, files) ==
    Validate(b, files).raised = "" /\ Validate(b, files).errors = <<>>

(***************************************************************************)
(* save.  The call is modelled step by step, one step per file system      *)
(* operation, because each of them can fail (raise OSError) and leave the  *)
(* staging directory and the destination as they are at that point.        *)
(* rmtree is taken as all or nothing.                                      *)
(***************************************************************************)
\* the arguments of a call of save
SaveArgs(destPath, libFolder, htmlFolder, resourcesFolder) ==
    [destPath |-> destPath, libFolder |-> libFolder,
     htmlFolder |-> htmlFolder, resourcesFolder |-> resourcesFolder]
NoArgs == SaveArgs(NoPath, NoFolder, NoFolder, NoFolder)

\* folder or default: the folder given, else the bundle's own
OrDefault(folder, default) == IF folder # NoFolder THEN folder ELSE default

\* the assertions without the one on the bound path
SavePreconditionErrorNoSelfCheck(b, files, a) ==
    IF b.hash # "" THEN "Cannot save this extension"
    ELSE IF Suffix(a.destPath) # fileExtension THEN "Wrong file extension"
    ELSE IF ~FolderAt(files, OrDefault(a.libFolder, LibFolder(b))).exists
    THEN "Lib folder is required to save"
    ELSE ""

\* the assertions at the head of save (lines 231-237): "" when all hold
SavePreconditionError(b, files, a) ==
    IF b.hash # "" THEN "Cannot save this extension"
    ELSE IF Suffix(a.destPath) # fileExtension THEN "Wrong file extension"
    ELSE IF a.destPath = BundlePath(b)
    THEN "You cannot override the same file"
    ELSE IF ~FolderAt(files, OrDefault(a.libFolder, LibFolder(b))).exists
    THEN "Lib folder is required to save"
    ELSE ""

\* convertMarkdown: an .html file beside every .md file of the folder
HtmlNameOf(name) == IF name = "index.md" THEN "index.html" ELSE name
IsMarkdown(name) == name \in {"index.md"}
ConvertMarkdown(dir) ==
    LET md == {n \in DOMAIN dir.files : IsMarkdown(n)}
        names == DOMAIN dir.files \cup {HtmlNameOf(n) : n \in md}
    IN  Dir([n \in names |->
                IF \E m \in md : HtmlNameOf(m) = n THEN "converted"
                ELSE dir.files[n]])

\* the condition under which save copies the html (resources) folder
\* (lines 244 and 248), and the folder it then copies
CopiesFolder(files, given, own) ==
    (given # NoFolder /\ FolderAt(files, given).exists)
    \/ FolderAt(files, own).exists

\* the history of the last call: the operation and its path, and for save
\* the bound path and the destination's tree at the call, whether this
\* bundle object was saved to the destination before, the assertion that
\* failed, the tree staged, the time stamp before the call
NoCall ==
    [op |-> "none", destPath |-> NoPath, bound |-> NoPath, old |-> NoTree,
     again |-> FALSE, error |-> "", staged |-> NoTree, stampBefore |-> PyNone,
     passed |-> FALSE]

TreeAt(files, p) == IF p \in Roots THEN files[p] ELSE NoTree

\* the entry of save with the time stamp taken before the assertions
SaveEnterStampFirst(a) ==
    /\ pc = "idle"
    /\ LET err == SavePreconditionError(bundle, fs, a)
           c == [op |-> "save", destPath |-> a.destPath,
                 bound |-> BundlePath(bundle), old |-> TreeAt(fs, a.destPath),
                 again |-> a.destPath \in written, error |-> err,
                 staged |-> NoTree, stampBefore |-> bundle.timeStamp,
                 passed |-> err = ""]
       IN  /\ now <= MaxSaves
           /\ now' = now + 1
           /\ bundle' = [bundle EXCEPT !.timeStamp = PyFloat(now)]
           /\ call' = c
           /\ UNCHANGED <<fs, written>>
           /\ IF err # ""
              THEN /\ result' = "AssertionError"
                   /\ pc' = "raised"
                   /\ UNCHANGED <<tmp, args>>
              ELSE /\ tmp' = EmptyTree
                   /\ pc' = "copyLib"
                   /\ args' = a
                   /\ result' = "running"

\* the entry of save: the assertions, the time stamp, mkdtemp (lines 231-240)
SaveEnter(a) ==
    /\ pc = "idle"
    /\ LET err == SavePreconditionError(bundle, fs, a)
           c == [op |-> "save", destPath |-> a.destPath,
                 bound |-> BundlePath(bundle), old |-> TreeAt(fs, a.destPath),
                 again |-> a.destPath \in written, error |-> err,
                 staged |-> NoTree, stampBefore |-> bundle.timeStamp,
                 passed |-> err = ""]
       IN  IF err # ""
           THEN /\ result' = "AssertionError"
                /\ pc' = "raised"
                /\ call' = c
                /\ UNCHANGED <<bundle, fs, tmp, args, now, written>>
           ELSE /\ now <= MaxSaves
                /\ now' = now + 1
                /\ bundle' = [bundle EXCEPT !.timeStamp = PyFloat(now)]
                /\ tmp' = EmptyTree
                /\ pc' = "copyLib"
                /\ args' = a
                /\ call' = c
                /\ result' = "running"
                /\ UNCHANGED <<fs, written>>

\* save raises where it stands; nothing catches an exception, it ends the
\* run
Raise(exc) ==
    /\ pc' = "raised"
    /\ result' = exc
    /\ args' = NoArgs
    /\ UNCHANGED <<bundle, fs, tmp, call, now, written>>

\* copytree(src, tempDir / name), which raises when src does not exist
Stage(name, src, convert, next) ==
    IF ~FolderAt(fs, src).exists
    THEN Raise("OSError")
    ELSE /\ tmp' = [tmp EXCEPT !.entry[name] =
                        IF convert THEN ConvertMarkdown(FolderAt(fs, src))
                        ELSE FolderAt(fs, src)]
         /\ pc' = next
         /\ UNCHANGED <<bundle, fs, args, call, result, now, written>>

Skip(next) ==
    /\ pc' = next
    /\ UNCHANGED <<bundle, fs, tmp, args, call, result, now, written>>

\* line 242
SaveCopyLib ==
    /\ pc = "copyLib"
    /\ Stage("lib", OrDefault(args.libFolder, LibFolder(bundle)), FALSE,
             "copyHtml")

\* lines 244-246
SaveCopyHtml ==
    /\ pc = "copyHtml"
    /\ IF CopiesFolder(fs, args.htmlFolder, HtmlFolder(bundle))
       THEN Stage("html", OrDefault(args.htmlFolder, HtmlFolder(bundle)), TRUE,
                  "copyResources")
       ELSE Skip("copyResources")

\* lines 248-249
SaveCopyResources ==
    /\ pc = "copyResources"
    /\ IF CopiesFolder(fs, args.resourcesFolder, ResourcesFolder(bundle))
       THEN Stage("resources",
                  OrDefault(args.resourcesFolder, ResourcesFolder(bundle)),
                  FALSE, "writePlist")
       ELSE Skip("writePlist")

\* lines 251-252: plistlib.dumps raises TypeError on a value it cannot write
SaveWritePlist ==
    /\ pc = "writePlist"
    /\ LET items == TruthyItems(InfoDictionary(bundle))
       IN  IF \E k \in DOMAIN items : ~PlistWritable(items[k])
           THEN Raise("TypeError")
           ELSE /\ tmp' = [tmp EXCEPT !.entry["info.plist"] =
                                PlistFile(PlistDumps(items))]
                /\ pc' = "writeLicense"
                /\ UNCHANGED <<bundle, fs, args, call, result, now, written>>

\* a side file written to the staging directory when its text is not empty
WriteText(name, text, next) ==
    IF text # ""
    THEN /\ tmp' = [tmp EXCEPT !.entry[name] = TextFile(text)]
         /\ pc' = next
         /\ UNCHANGED <<bundle, fs, args, call, result, now, written>>
    ELSE Skip(next)

\* lines 254-255
SaveWriteLicense ==
    /\ pc = "writeLicense"
    /\ WriteText("license", bundle.license, "writeRequirements")

\* lines 257-258
SaveWriteRequirements ==
    /\ pc = "writeRequirements"
    /\ WriteText("requirements.txt", bundle.requirements, "removeDest")

\* lines 260-261: rmtree(destPath) when it exists
SaveRemoveDest ==
    /\ pc = "removeDest"
    /\ fs' = [fs EXCEPT ![args.destPath] = NoTree]
    /\ call' = [call EXCEPT !.staged = tmp]
    /\ pc' = "makeDest"
    /\ UNCHANGED <<bundle, tmp, args, result, now, written>>

\* line 263, copytree(tempDir, destPath): the destination directory is made
SaveMakeDest ==
    /\ pc = "makeDest"
    /\ fs' = [fs EXCEPT ![args.destPath] = EmptyTree]
    /\ pc' = "copyDest"
    /\ UNCHANGED <<bundle, tmp, args, call, result, now, written>>

\* line 263, copytree(tempDir, destPath): the entries of the staging
\* directory are copied one after the other, in the order the file system
\* lists them
SaveCopyEntry(e) ==
    /\ pc = "copyDest"
    /\ e \in Present(tmp) \ Present(fs[args.destPath])
    /\ fs' = [fs EXCEPT ![args.destPath].entry[e] = tmp.entry[e]]
    /\ UNCHANGED <<bundle, tmp, pc, args, call, result, now, written>>

\* line 264: rmtree(tempDir), once every entry is copied
SaveRemoveTemp ==
    /\ pc = "copyDest"
    /\ Present(tmp) \subseteq Present(fs[args.destPath])
    /\ tmp' = NoTree
    /\ pc' = "validate"
    /\ UNCHANGED <<bundle, fs, args, call, result, now, written>>

\* self.validate() with its result as strings
Validated(b, files) ==
    LET v == Validate(b, files)
    IN  [bundle |-> [b EXCEPT !.errors = v.errors],
         result |-> IF v.raised # "" THEN v.raised
                    ELSE IF v.errors = <<>> THEN "True" ELSE "False"]

\* the return of save with the time stamp taken once the tree is written
SaveReturnRestamps ==
    /\ pc = "validate"
    /\ bundle' = [Validated(bundle, fs).bundle EXCEPT !.timeStamp = PyFloat(now)]
    /\ result' = Validated(bundle, fs).result
    /\ pc' = IF Validate(bundle, fs).raised = "" THEN "idle" ELSE "raised"
    /\ args' = NoArgs
    /\ written' = written \cup {args.destPath}
    /\ UNCHANGED <<fs, tmp, call, now>>

\* line 265: return self.validate()
SaveReturn ==
    /\ pc = "validate"
    /\ bundle' = Validated(bundle, fs).bundle
    /\ result' = Validated(bundle, fs).result
    /\ pc' = IF Validate(bundle, fs).raised = "" THEN "idle" ELSE "raised"
    /\ args' = NoArgs
    /\ written' = written \cup {args.destPath}
    /\ UNCHANGED <<fs, tmp, call, now>>

\* the current step of save operates on the file system
OperatesOnFiles ==
    CASE pc = "copyHtml" ->
            CopiesFolder(fs, args.htmlFolder, HtmlFolder(bundle))
      [] pc = "copyResources" ->
            CopiesFolder(fs, args.resourcesFolder, ResourcesFolder(bundle))
      [] pc = "writeLicense" -> bundle.license # ""
      [] pc = "writeRequirements" -> bundle.requirements # ""
      [] pc = "removeDest" -> RootExists(fs, args.destPath)
      [] pc \in {"copyLib", "writePlist", "makeDest", "copyDest"} -> TRUE
      [] OTHER -> FALSE

\* the file system operation of the current step fails with OSError
SaveFail ==
    /\ OperatesOnFiles
    /\ Raise("OSError")

(***************************************************************************)
(* The other operations on the bundle.                                     *)
(***************************************************************************)
\* bundle = ExtensionBundle.load(bundlePath)
LoadCall(p) ==
    /\ pc = "idle"
    /\ LET r == Load(fs, p)
       IN  /\ bundle' = IF r.raised = "" THEN r.bundle ELSE bundle
           /\ result' = IF r.raised = "" THEN "bundle" ELSE r.raised
           /\ pc' = IF r.raised = "" THEN "idle" ELSE "raised"
    /\ call' = [NoCall EXCEPT !.op = "load", !.destPath = p]
    /\ written' = {}
    /\ UNCHANGED <<fs, tmp, args, now>>

\* bundle.validate()
ValidateCall ==
    /\ pc = "idle"
    /\ bundle' = Validated(bundle, fs).bundle
    /\ result' = Validated(bundle, fs).result
    /\ pc' = IF Validate(bundle, fs).raised = "" THEN "idle" ELSE "raised"
    /\ call' = [NoCall EXCEPT !.op = "validate"]
    /\ UNCHANGED <<fs, tmp, args, now, written>>

\* bundle.expireDate = value
SetExpireDate(value) ==
    /\ pc = "idle"
    /\ bundle.expireDate # value
    /\ bundle' = [bundle EXCEPT !.expireDate = value]
    /\ call' = [NoCall EXCEPT !.op = "setattr"]
    /\ result' = "None"
    /\ UNCHANGED <<fs, tmp, pc, args, now, written>>

(***************************************************************************)
(* The initial states: a bundle constructed in memory, and a file system   *)
(* that may hold a bundle distributed earlier.                             *)
(***************************************************************************)
RequiredFields ==
    [extensionName |-> PyStr("ext"), developer |-> PyStr("TypeMyType"),
     developerURL |-> PyStr("http://typemytype.com"), version |-> PyStr("1.0")]

MenuEntry ==
    PyDict([path |-> PyStr("main.py"), preferredName |-> PyStr("Tool"),
            shortKey |-> PyTuple(<<PyInt(1), PyStr("t")>>)])

\* the keyword arguments of the constructor the model starts from
ConstructorArgs ==
    { <<>>,
      RequiredFields,
      RequiredFields @@ [launchAtStartUp |-> PyBool(FALSE),
                         mainScript |-> PyStr("main.py"),
                         html |-> PyBool(FALSE)],
      RequiredFields @@ [launchAtStartUp |-> PyBool(TRUE),
                         mainScript |-> PyStr("main.py"),
                         html |-> PyBool(TRUE),
                         addToMenu |-> PyList(<<MenuEntry>>),
                         license |-> "MIT"] }

\* a bundle on disk whose info.plist holds every key load subscripts
InstalledPlist ==
    [name |-> PyStr("dummy"), developer |-> PyStr("TypeMyType"),
     developerURL |-> PyStr("http://typemytype.com"),
     version |-> PyStr("1.0"), launchAtStartUp |-> PyBool(FALSE),
     mainScript |-> PyStr(""), html |-> PyBool(FALSE),
     timeStamp |-> PyFloat(0)]

InstalledTree ==
    [EmptyTree EXCEPT
        !.entry["lib"] = Dir(("main.py" :> "ok")),
        !.entry["resources"] = Dir(("icon.png" :> "png")),
        !.entry["info.plist"] = PlistFile(InstalledPlist)]

\* the same with an expireDate and the .hash file written for it
HashedTree ==
    [InstalledTree EXCEPT
        !.entry["info.plist"] =
            PlistFile(InstalledPlist @@ [expireDate |-> PyStr("3000-01-01")]),
        !.entry[".hash"] = TextFile("digest")]

InitTrees == {NoTree, InstalledTree, HashedTree}

Init ==
    /\ \E kw \in ConstructorArgs, p \in {NoPath, "A.roboFontExt"} :
            bundle = ExtensionBundle(kw @@ [path |-> p])
    /\ \E t \in InitTrees :
            fs = [r \in Roots |-> IF r = "A.roboFontExt" THEN t ELSE NoTree]
    /\ tmp = NoTree
    /\ pc = "idle"
    /\ args = NoArgs
    /\ call = NoCall
    /\ result = "None"
    /\ now = 1
    /\ written = {}

\* the folders a caller hands to save: none, the code alone, the code with
\* the documentation and the resources, a code folder that does not exist
FolderArgs ==
    { <<NoFolder, NoFolder, NoFolder>>,
      <<FolderPath("source", "code"), NoFolder, NoFolder>>,
      <<FolderPath("source", "code"), FolderPath("source", "documentation"),
        FolderPath("source", "resources")>>,
      <<FolderPath("source", "missing"), NoFolder, NoFolder>> }

Next ==
    \/ \E d \in DestPaths, f \in FolderArgs :
            SaveEnter(SaveArgs(d, f[1], f[2], f[3]))
    \/ SaveCopyLib
    \/ SaveCopyHtml
    \/ SaveCopyResources
    \/ SaveWritePlist
    \/ SaveWriteLicense
    \/ SaveWriteRequirements
    \/ SaveRemoveDest
    \/ SaveMakeDest
    \/ \E e \in Entries : SaveCopyEntry(e)
    \/ SaveRemoveTemp
    \/ SaveReturn
    \/ SaveFail
    \/ \E p \in Roots : LoadCall(p)
    \/ ValidateCall
    \/ \E v \in {PyNone, PyStr("2019-01-01")} : SetExpireDate(v)

Spec == Init /\ [][Next]_vars

(***************************************************************************)
(* Properties of save and load.                                            *)
(***************************************************************************)
\* a call of save has returned and nothing was done to the bundle since
SaveCompleted ==
    pc = "idle" /\ call.op = "save" /\ result \in {"True", "False"}

\* C1: the boolean save returns is what validate reports for the bundle
\* rooted at destPath, the tree save has just written.
C1_SaveValidatesDestination ==
    SaveCompleted =>
        ((result = "True")
            <=> ValidateOk([bundle EXCEPT !.path = call.destPath], fs))

\* C2: a save whose destination is the bundle's bound path always fails with
\* an assertion error, whatever the bundle holds.
C2_SaveToBoundPathRejected ==
    (call.op = "save" /\ call.destPath = call.bound) =>
        (~call.passed /\ pc = "raised" /\ result = "AssertionError")

\* C2 happens: a bundle whose content validates is saved to the path it is
\* bound to and the self-overwrite assertion fails
C2_Witness ==
    /\ call.op = "save"
    /\ call.destPath = call.bound
    /\ call.error = "You cannot override the same file"
    /\ ValidateOk(bundle, fs)

\* C3: once save has written the bundle to a path, a later save of the same
\* bundle object to that path is rejected.
C3_SecondSaveToSamePathRejected ==
    (call.op = "save" /\ call.again) => ~call.passed

\* C4: after a save that returned, the .hash file exists at the destination
\* exactly when expireDate is set, and expireDate and hash are both set or
\* both unset.
C4_HashMarkerIffExpireDate ==
    SaveCompleted =>
        /\ fs[call.destPath].entry[".hash"].exists <=> Truthy(bundle.expireDate)
        /\ Truthy(bundle.expireDate) <=> bundle.hash # ""

\* C5: at every point of a save that passed its preconditions, the
\* destination is absent, or the tree it held at the call, or the complete
\* tree that save staged.
C5_DestinationNeverPartial ==
    (call.op = "save" /\ call.passed) =>
        LET t == fs[call.destPath]
        IN  \/ ~t.exists
            \/ t = call.old
            \/ call.staged.exists /\ t = call.staged

\* C6: when save has returned or raised, no staging directory is left.
C6_StagingRemoved ==
    pc \in {"idle", "raised"} => ~tmp.exists

\* the assertions named by C7
RejectedByPrecondition(c) ==
    c.op = "save"
    /\ c.error \in {"You cannot override the same file",
                    "Wrong file extension", "Lib folder is required to save"}

\* C7: a save rejected by a precondition changes nothing: no staging
\* directory, the file system as it was, the same timeStamp.
C7_RejectedSaveChangesNothing ==
    [][(pc = "idle" /\ pc' = "raised" /\ RejectedByPrecondition(call'))
        => (fs' = fs /\ tmp' = tmp /\ ~tmp'.exists
            /\ bundle'.timeStamp = bundle.timeStamp)]_vars

\* C7 happens: a bundle that carries a time stamp is saved to its own,
\* existing, path and is rejected
C7_Witness ==
    /\ pc = "raised"
    /\ RejectedByPrecondition(call)
    /\ bundle.timeStamp # PyNone
    /\ RootExists(fs, call.destPath)

\* the four required fields are set
RequiredSet(b) ==
    /\ b.extensionName # PyNone
    /\ b.developer # PyNone
    /\ b.developerURL # PyNone
    /\ b.version # PyNone

\* every attribute set on b, timeStamp apart, has the same value on c
SameSetAttributes(b, c) ==
    /\ \A k \in InfoKeys \ {"timeStamp"} :
            b[AttrOf(k)] # PyNone => c[AttrOf(k)] = b[AttrOf(k)]
    /\ b.license # "" => c.license = b.license
    /\ b.requirements # "" => c.requirements = b.requirements

\* C8: a bundle with its required fields set, saved to a fresh destination,
\* loads back from there with every attribute that was set, timeStamp apart.
C8_RoundTrip ==
    (SaveCompleted /\ ~call.old.exists /\ RequiredSet(bundle)) =>
        LET r == Load(fs, call.destPath)
        IN  r.raised = "" /\ SameSetAttributes(bundle, r.bundle)

\* C9: load of an info.plist that parses does not fail on an absent field.
C9_LoadToleratesAbsentFields ==
    (call.op = "load" /\ fs[call.destPath].entry["info.plist"].parses) =>
        result # "KeyError"

\* C10 as stated: once save has written the bundle, no later operation on
\* the same bundle object changes timeStamp, a later save to another
\* destination included (load returns another object; a save to a path
\* already written is the case of C3).
C10_StampedOnce ==
    [][(written # {} /\ call'.op # "load"
            /\ ~(call'.op = "save" /\ call'.destPath \in written))
        => bundle'.timeStamp = bundle.timeStamp]_vars

\* C10: timeStamp changes only at the entry of a save that passes its
\* preconditions, which sets it to the current time (load returns another
\* object).
C10_OnlySaveStamps ==
    [][(bundle'.timeStamp # bundle.timeStamp /\ call'.op # "load")
        => (pc = "idle" /\ pc' = "copyLib" /\ call'.op = "save"
            /\ call'.passed /\ bundle'.timeStamp = PyFloat(now))]_vars

\* C10 happens: a bundle already written by save is saved again and carries
\* a new time stamp
C10_Witness ==
    /\ SaveCompleted
    /\ ~call.again
    /\ written # {call.destPath}
    /\ call.stampBefore # PyNone
    /\ bundle.timeStamp # call.stampBefore

(***************************************************************************)
(* validate on its own: the bundle carries attribute values of any type    *)
(* and is bound to a root whose tree is drawn from ValidateTrees.          *)
(***************************************************************************)
\* an entry of addToMenu with the given path
MenuEntryAt(path) ==
    PyDict([path |-> PyStr(path), preferredName |-> PyStr("Tool"),
            shortKey |-> PyStr("t")])

\* the values each attribute is drawn from
AttributeValues ==
    [extensionName |-> {PyNone, PyStr(""), PyStr("ext")},
     developer |-> {PyNone, PyStr("TypeMyType")},
     version |-> {PyNone, PyStr("1.0")},
     developerURL |->
        {PyNone, PyStr("https://example.com"), PyStr("/local/path"),
         PyStr("https://a.com https://a.com"), PyInt(5)},
     documentationURL |->
        {PyNone, PyStr("https://example.com"),
         PyStr("https://a.com https://a.com")},
     addToMenu |->
        {PyList(<<>>), PyList(<<MenuEntryAt("main.py")>>),
         PyList(<<MenuEntryAt("gone.py")>>),
         PyList(<<MenuEntryAt("readme.txt")>>),
         PyList(<<PyInt(5)>>), PyStr("menu")},
     mainScript |-> {PyNone, PyStr("main.py"), PyInt(5)},
     expireDate |->
        {PyNone, PyStr("3000-01-01"), PyStr("tomorrow"), PyInt(5)}]

\* a bundle on disk whose lib folder holds a script that does not compile
\* and a file that is no script
ScriptsTree ==
    [InstalledTree EXCEPT
        !.entry["lib"] = Dir(("main.py" :> "ok") @@ ("bad.py" :> "syntax error")
                             @@ ("readme.txt" :> "text"))]

\* a bundle on disk whose lib folder holds a script that is not utf-8
UndecodableTree ==
    [InstalledTree EXCEPT
        !.entry["lib"] = Dir(("main.py" :> "not utf-8"))]

ValidateTrees ==
    {NoTree, EmptyTree,
     [InstalledTree EXCEPT !.entry["info.plist"] = GarbagePlist],
     InstalledTree, ScriptsTree, UndecodableTree}

ValidateInit ==
    /\ \E n \in AttributeValues.extensionName,
          d \in AttributeValues.developer, v \in AttributeValues.version,
          u \in AttributeValues.developerURL,
          doc \in AttributeValues.documentationURL,
          m \in AttributeValues.addToMenu, s \in AttributeValues.mainScript,
          e \in AttributeValues.expireDate :
            bundle = ExtensionBundle(
                [path |-> "A.roboFontExt", extensionName |-> n,
                 developer |-> d, version |-> v, developerURL |-> u,
                 documentationURL |-> doc, addToMenu |-> m, mainScript |-> s,
                 expireDate |-> e])
    /\ \E t \in ValidateTrees :
            fs = [r \in Roots |-> IF r = "A.roboFontExt" THEN t ELSE NoTree]
    /\ tmp = NoTree
    /\ pc = "idle"
    /\ args = NoArgs
    /\ call = NoCall
    /\ result = "None"
    /\ now = 1
    /\ written = {}

ValidateSpec == ValidateInit /\ [][ValidateCall]_vars

\* validate was called on a bundle whose root exists and whose info.plist
\* is present and parses (the existence gate has passed)
PastExistenceGate ==
    /\ call.op = "validate"
    /\ RootExists(fs, BundlePath(bundle))
    /\ fs[BundlePath(bundle)].entry["info.plist"].parses

\* the messages validate has left in self._errors
Reported == {bundle.errors[i] : i \in 1..Len(bundle.errors)}

\* C11: validate never raises on an invalid bundle: whatever the attribute
\* values and the tree, the call returns True or False.
C11_ValidateNeverRaises ==
    call.op = "validate" => (pc = "idle" /\ result \in {"True", "False"})

\* a required field that is not non-empty text
Missing(x) == ~IsStr(x) \/ x.str = ""

\* C12: past the existence gate every check group runs whatever the earlier
\* groups found: each missing required field has its message (four fields
\* missing, four messages), and a script that does not compile keeps neither
\* the URL nor the expiry message from being reported.
C12_NoShortCircuit ==
    PastExistenceGate =>
        /\ result \in {"True", "False"}
        /\ Missing(bundle.extensionName) =>
                Reported \cap {"Extension name should be a string",
                               "Extension name cannot be an empty string"} # {}
        /\ Missing(bundle.developer) =>
                "Developer name should be a string" \in Reported
        /\ Missing(bundle.developerURL) =>
                "Developer URL should be a string" \in Reported
        /\ Missing(bundle.version) =>
                "Extension version should be a string" \in Reported
        /\ (IsStr(bundle.developerURL) /\ bundle.developerURL.str = "/local/path")
                => "Developer URL is not valid" \in Reported
        /\ bundle.expireDate = PyStr("tomorrow") =>
                "expire date is not set in the correct format: YYYY-MM-DD. "
                    \in Reported

\* an entry of addToMenu whose path is no .py file of the lib folder
BadMenuPath(entry, lib) ==
    /\ IsDict(entry)
    /\ "path" \in DOMAIN entry.dict
    /\ IsStr(entry.dict["path"])
    /\ \/ ~IsPyFile(entry.dict["path"].str)
       \/ ~(lib.exists /\ entry.dict["path"].str \in DOMAIN lib.files)

\* C13: a bundle with an addToMenu entry whose path does not end in .py or
\* is no file of the lib folder never validates as ok.
C13_MenuPathsChecked ==
    (PastExistenceGate /\ IsList(bundle.addToMenu)
        /\ \E i \in 1..Len(bundle.addToMenu.list) :
                BadMenuPath(bundle.addToMenu.list[i],
                            FolderAt(fs, LibFolder(bundle))))
    => result # "True"

\* one well-formed absolute URL: a scheme, a network location, no white
\* space
WellFormedURL(x) ==
    IsStr(x) /\ x.str \in {"https://example.com", "http://typemytype.com"}

\* C14: validate accepts a URL field that is present exactly when it is one
\* well-formed absolute URL.
C14_URLAcceptedIffWellFormed ==
    (PastExistenceGate /\ result \in {"True", "False"}) =>
        /\ Truthy(bundle.developerURL) =>
            ("Developer URL is not valid" \notin Reported
                <=> WellFormedURL(bundle.developerURL))
        /\ Truthy(bundle.documentationURL) =>
            ("Documentation URL is not valid" \notin Reported
                <=> WellFormedURL(bundle.documentationURL))

(***************************************************************************)
(* extensionHash.  A file of the bundle is its path relative to the root   *)
(* (a sequence of names) with its bytes.  sha1 is taken as free of         *)
(* collisions: a digest is the record of the bytes it was fed.             *)
(***************************************************************************)
\* the files under a root: those of the folders, then the text files at the
\* root (the trees that are hashed here hold no info.plist)
FilesOf(tree) ==
    IF ~tree.exists THEN {}
    ELSE UNION {
            IF tree.entry[e].exists
            THEN {[path |-> <<e, n>>, bytes |-> tree.entry[e].files[n]] :
                    n \in DOMAIN tree.entry[e].files}
            ELSE {} : e \in {"lib", "html", "resources"}}
         \cup {[path |-> <<e>>, bytes |-> tree.entry[e].text] :
                    e \in {e \in {"license", "requirements.txt", ".hash"} :
                                tree.entry[e].exists}}

\* Path.name: the last name of a path
PathName(path) == path[Len(path)]

\* name.endswith(".DS_Store") for the names the model uses
EndsWithDSStore(name) == name \in {".DS_Store", "old.DS_Store"}

\* the files the walk skips (lines 277-280)
Excluded(name) == name \in {"Icon\r", ".hash"} \/ EndsWithDSStore(name)

\* the names of the model in the order Python gives to str
NameOrder ==
    <<".DS_Store", ".hash", "Icon\r", "a.py", "b.py", "html", "lib",
      "license", "old.DS_Store", "requirements.txt", "resources">>
NameRank(name) == CHOOSE i \in 1..Len(NameOrder) : NameOrder[i] = name

\* p < q for two Path objects: the order of their sequences of names
RECURSIVE PathLess(_, _)
PathLess(p, q) ==
    IF q = <<>> THEN FALSE
    ELSE IF p = <<>> THEN TRUE
    ELSE IF Head(p) = Head(q) THEN PathLess(Tail(p), Tail(q))
    ELSE NameRank(Head(p)) < NameRank(Head(q))

\* a sequence without its i-th element
Without(seq, i) == SubSeq(seq, 1, i - 1) \o SubSeq(seq, i + 1, Len(seq))

\* the files as collected, left in the order of the walk
SortedAsWalked(files) == files

\* sorted(pathToDigest)
RECURSIVE Sorted(_)
Sorted(files) ==
    IF files = <<>> THEN <<>>
    ELSE LET i == CHOOSE i \in 1..Len(files) :
                    \A j \in 1..Len(files) :
                        ~PathLess(files[j].path, files[i].path)
         IN  <<files[i]>> \o Sorted(Without(files, i))

\* hashlib.sha1(name.encode()).digest(): twenty bytes, which a file can hold
NameDigest(name) == "<sha1 " \o name \o ">"

\* the bytes fed to the digest for the sorted files, each file adding the
\* digest of its name and then its content (lines 283-291)
RECURSIVE Fold(_)
Fold(files) ==
    IF files = <<>> THEN ""
    ELSE NameDigest(PathName(Head(files).path)) \o Head(files).bytes
         \o Fold(Tail(files))

\* an enumeration of the files by os.walk: every file once, in any order
RECURSIVE Enumerations(_)
Enumerations(files) ==
    IF files = {} THEN {<<>>}
    ELSE UNION {{<<f>> \o w : w \in Enumerations(files \ {f})} : f \in files}

\* the walk that also collects the files ending in .DS_Store
SelectIncludedKeepsDSStore(walk) ==
    SelectSeq(walk, LAMBDA f : PathName(f.path) \notin {"Icon\r", ".hash"})

\* the walk without the skipped files
SelectIncluded(walk) == SelectSeq(walk, LAMBDA f : ~Excluded(PathName(f.path)))

\* extensionHash(passphrase) when os.walk enumerates the files as walk
ExtensionHash(passphrase, walk) ==
    [sha1 |-> passphrase \o Fold(Sorted(SelectIncluded(walk)))]

(***************************************************************************)
(* extensionHash on its own: a bundle root whose files are drawn from a    *)
(* small universe, hashed under every enumeration of its files.            *)
(***************************************************************************)
\* a folder holding the files whose bytes are chosen (Absent: no such file)
Absent == "absent"
DirOf(choice) ==
    Dir([n \in {n \in DOMAIN choice : choice[n] # Absent} |-> choice[n]])

\* the trees that are hashed: lib with two scripts and two skipped files,
\* resources with one file, the .hash marker
HashTrees ==
  {t \in
    {[EmptyTree EXCEPT
        !.entry["lib"] = DirOf(("a.py" :> a) @@ ("b.py" :> b)
                               @@ (".DS_Store" :> ds) @@ ("Icon\r" :> icon)),
        !.entry["resources"] = DirOf(("a.py" :> r) @@ ("old.DS_Store" :> Absent)),
        !.entry[".hash"] = IF h = Absent THEN NoFile ELSE TextFile(h)] :
      a \in {Absent, "x", "x<sha1 b.py>y"}, b \in {Absent, "y"},
      ds \in {Absent, "d"}, icon \in {Absent, "i"}, r \in {Absent, "x"},
      h \in {Absent, "digest"}} :
    Cardinality(FilesOf(t)) <= MaxFiles}

Passphrases == {"", "roboFont.extension.hash"}

HashInit ==
    /\ bundle = ExtensionBundle(RequiredFields @@ [path |-> "A.roboFontExt"])
    /\ \E t \in HashTrees :
            fs = [r \in Roots |-> IF r = "A.roboFontExt" THEN t ELSE NoTree]
    /\ tmp = NoTree
    /\ pc = "idle"
    /\ args = NoArgs
    /\ call = NoCall
    /\ result = "None"
    /\ now = 1
    /\ written = {}

\* bundle.extensionHash(passphrase), os.walk enumerating the files as walk
ExtensionHashCall(passphrase, walk) ==
    /\ pc = "idle"
    /\ result' = ExtensionHash(passphrase, walk)
    /\ call' = [op |-> "extensionHash", passphrase |-> passphrase,
                walk |-> walk] @@ NoCall
    /\ UNCHANGED <<bundle, fs, tmp, pc, args, now, written>>

\* the tree at the root of the bundle
HashedRoot == TreeAt(fs, BundlePath(bundle))

HashNext ==
    \E passphrase \in Passphrases, walk \in Enumerations(FilesOf(HashedRoot)) :
        ExtensionHashCall(passphrase, walk)

HashSpec == HashInit /\ [][HashNext]_vars

\* the digest of another tree under the same passphrase, its files
\* enumerated in some order
RECURSIVE SomeWalk(_)
SomeWalk(files) ==
    IF files = {} THEN <<>>
    ELSE LET f == CHOOSE f \in files : TRUE
         IN  <<f>> \o SomeWalk(files \ {f})
DigestOf(tree) == ExtensionHash(call.passphrase, SomeWalk(FilesOf(tree)))

\* C15: the digest does not depend on the order in which the file system
\* enumerates the files: every enumeration of the same tree gives the
\* digest that was returned.
C15_HashIgnoresEnumerationOrder ==
    call.op = "extensionHash" =>
        \A walk \in Enumerations(FilesOf(HashedRoot)) :
            ExtensionHash(call.passphrase, walk) = result

\* C15 happens: a tree with several files was hashed from an enumeration
\* that is not in sorted order
C15_Witness ==
    /\ call.op = "extensionHash"
    /\ Len(SelectIncluded(call.walk)) >= 2
    /\ \E i \in 1..(Len(call.walk) - 1) :
            PathLess(call.walk[i + 1].path, call.walk[i].path)

\* the files the digest is to ignore: the .hash marker, the file Icon
\* followed by a carriage return, the files ending in .DS_Store
Ignored(f) ==
    \/ f.path = <<".hash">>
    \/ PathName(f.path) \in {"Icon\r", ".DS_Store", "old.DS_Store"}

\* the logical tree: the relative paths with their bytes, ignored files
\* apart
LogicalTree(tree) == {f \in FilesOf(tree) : ~Ignored(f)}

\* C16: two trees whose logical trees differ (a byte edited, a file added,
\* removed, renamed or moved) have different digests.
C16_HashDetectsEveryChange ==
    call.op = "extensionHash" =>
        \A other \in HashTrees :
            LogicalTree(other) # LogicalTree(HashedRoot)
                => DigestOf(other) # result

\* C17: creating, changing or deleting only ignored files leaves the digest
\* as it is: every tree with the same logical tree has the digest that was
\* returned.
C17_HashIgnoresExcludedFiles ==
    call.op = "extensionHash" =>
        \A other \in HashTrees :
            LogicalTree(other) = LogicalTree(HashedRoot)
                => DigestOf(other) = result

\* C17 happens: the tree hashed holds the marker at its root and skipped
\* files in a sub folder, beside files that are digested
C17_Witness ==
    /\ call.op = "extensionHash"
    /\ HashedRoot.entry[".hash"].exists
    /\ {".DS_Store", "Icon\r"} \subseteq DOMAIN HashedRoot.entry["lib"].files
    /\ LogicalTree(HashedRoot) # {}

(***************************************************************************)
(* Requirements (Lib/_extensionBundle.py).  A text is the sequence of its  *)
(* lines, a line the sequence of its tokens: " " is white space, "#",      *)
(* "==" and ">=" are themselves, any other token is a word.                *)
(***************************************************************************)
\* str.strip()
RECURSIVE Strip(_)
Strip(line) ==
    IF line = <<>> THEN <<>>
    ELSE IF Head(line) = " " THEN Strip(Tail(line))
    ELSE IF line[Len(line)] = " " THEN Strip(SubSeq(line, 1, Len(line) - 1))
    ELSE line

\* sep in line
Contains(line, sep) == \E i \in 1..Len(line) : line[i] = sep

\* line.split(sep): the pieces between the occurrences of sep
RECURSIVE Split(_, _)
Split(line, sep) ==
    IF ~Contains(line, sep) THEN <<line>>
    ELSE LET i == CHOOSE i \in 1..Len(line) :
                    line[i] = sep /\ \A j \in 1..(i - 1) : line[j] # sep
         IN  <<SubSeq(line, 1, i - 1)>>
             \o Split(SubSeq(line, i + 1, Len(line)), sep)

\* one pass of the loop body (lines 691-714): whether the line is skipped,
\* whether the unpacking of split raises, the key and the version tuple
ParseLine(raw) ==
    LET stripped == Strip(raw)
        line == Split(stripped, "#")[1]
        sep == IF Contains(line, "==") THEN "=="
               ELSE IF Contains(line, ">=") THEN ">=" ELSE ""
        parts == IF sep = "" THEN <<line>> ELSE Split(line, sep)
        compare == IF sep = "==" THEN "_requirementCompareVersionMustBeEqual"
                   ELSE "_requirementCompareVersionCompareEqualOrBigger"
    IN  IF stripped = <<>> \/ Head(stripped) = "#"
        THEN [skip |-> TRUE, raised |-> "", key |-> <<>>, version |-> PyNone]
        ELSE IF sep # "" /\ Len(parts) # 2
        THEN [skip |-> FALSE, raised |-> "ValueError", key |-> <<>>,
              version |-> PyNone]
        ELSE [skip |-> FALSE, raised |-> "", key |-> Strip(parts[1]),
              version |-> IF sep = "" THEN PyNone
                          ELSE PyTuple(<<compare, Strip(parts[2]),
                                         Strip(line)>>)]

\* the generator without the set of the names already yielded
RECURSIVE IterParseWithoutDone(_, _)
IterParseWithoutDone(lines, done) ==
    IF lines = <<>> THEN [raised |-> "", yielded |-> <<>>]
    ELSE LET p == ParseLine(Head(lines))
             rest == IterParseWithoutDone(Tail(lines), done)
         IN  IF p.raised # "" THEN [raised |-> p.raised, yielded |-> <<>>]
             ELSE IF p.skip THEN rest
             ELSE [rest EXCEPT !.yielded = <<<<p.key, p.version>>>> \o @]

\* iterParseRequirements run to its end: the pairs yielded, and the
\* exception that ends the generator ("" when it is exhausted)
RECURSIVE IterParse(_, _)
IterParse(lines, done) ==
    IF lines = <<>> THEN [raised |-> "", yielded |-> <<>>]
    ELSE LET p == ParseLine(Head(lines))
         IN  IF p.raised # "" THEN [raised |-> p.raised, yielded |-> <<>>]
             ELSE IF p.skip \/ p.key \in done
             THEN IterParse(Tail(lines), done)
             ELSE LET rest == IterParse(Tail(lines), done \cup {p.key})
                  IN  [rest EXCEPT !.yielded = <<<<p.key, p.version>>>> \o @]

\* the fields of the dataclass of _extensionBundle.py, in the order the
\* generated __init__ assigns them
LegacyFields == <<"name", "path", "libName", "htmlName", "resourcesName">>

\* the names the body of that class binds to a property whose setter stores
\* the value in self.infoDictionary
LegacyInfoProperties ==
    {"name", "developer", "developerURL", "version", "timeStamp",
     "requiresVersionMajor", "requiresVersionMinor", "addToMenu",
     "launchAtStartUp", "mainScript", "uninstallScript", "html",
     "documentationURL", "expireDate"}

\* ExtensionBundle(**kw) of _extensionBundle.py.  __init__ assigns the
\* fields, then calls __post_init__, which is where _infoDictCache is set.
\* The assignment of a field that is one of the properties runs the setter,
\* which reads self.infoDictionary and so self._infoDictCache, an attribute
\* the object does not have yet.
LegacyConstruct(kw) ==
    IF \E i \in 1..Len(LegacyFields) : LegacyFields[i] \in LegacyInfoProperties
    THEN [raised |-> "AttributeError", infoDictionary |-> PyNone,
          bundlePath |-> NoPath]
    ELSE [raised |-> "", infoDictionary |-> PyDict(<<>>),
          bundlePath |-> kw.path]

\* resolveRequirements() for the requirements text of the bundle: the set
\* returned, or the exception raised.  The loop body runs for the first
\* pair the generator yields, and starts with self.__class__(requirement),
\* the construction of a bundle from a name.
ResolveRequirements(lines) ==
    LET parsed == IterParse(lines, {})
        made == LegacyConstruct([name |-> PyStr("drawBot"), path |-> NoPath])
    IN  IF lines = <<<<>>>>
        THEN [raised |-> "", required |-> {}]
        ELSE IF parsed.yielded # <<>> /\ made.raised # ""
        THEN [raised |-> made.raised, required |-> {}]
        ELSE [raised |-> parsed.raised, required |-> {}]

(***************************************************************************)
(* The requirements on their own: a bundle whose requirements text is      *)
(* drawn from the texts of up to MaxLines lines.                           *)
(***************************************************************************)
\* the lines a text is made of: blank lines, a comment, names with and
\* without white space and inline comment, the two constraints, a name
\* constrained twice on one line
RequirementLines ==
    { <<>>, <<" ", "#", "note">>,
      <<" ", "drawBot">>, <<"Batch", " ", "#", "note">>,
      <<" ", "myExtension", " ", ">=", " ", "3.0", " ">>,
      <<"myExtension", " ", "==", " ", "4.5", " ", "#", "note">>,
      <<"drawBot", "==", "1.0">>,
      <<"Batch", "==", "1", "==", "2">> }

RequirementTexts ==
    UNION {[1..n -> RequirementLines] : n \in 1..MaxLines}

RequirementsInit ==
    /\ \E text \in RequirementTexts :
            bundle = [DefaultBundle EXCEPT !.requirements = text]
    /\ fs = [r \in Roots |-> NoTree]
    /\ tmp = NoTree
    /\ pc = "idle"
    /\ args = NoArgs
    /\ call = NoCall
    /\ result = "None"
    /\ now = 1
    /\ written = {}

\* list(bundle.iterParseRequirements(bundle.requirements))
IterParseRequirementsCall ==
    /\ pc = "idle"
    /\ result' = IterParse(bundle.requirements, {})
    /\ call' = [NoCall EXCEPT !.op = "iterParseRequirements"]
    /\ pc' = IF result'.raised = "" THEN "idle" ELSE "raised"
    /\ UNCHANGED <<bundle, fs, tmp, args, now, written>>

\* bundle.resolveRequirements()
ResolveRequirementsCall ==
    /\ pc = "idle"
    /\ result' = ResolveRequirements(bundle.requirements)
    /\ call' = [NoCall EXCEPT !.op = "resolveRequirements"]
    /\ pc' = IF result'.raised = "" THEN "idle" ELSE "raised"
    /\ UNCHANGED <<bundle, fs, tmp, args, now, written>>

RequirementsNext == IterParseRequirementsCall \/ ResolveRequirementsCall

RequirementsSpec == RequirementsInit /\ [][RequirementsNext]_vars

\* what a line of the requirements grammar means: nothing (a blank line or
\* a comment), or a name with its constraint
Meaning(line) ==
    CASE line \in {<<>>, <<" ", "#", "note">>} -> <<>>
      [] line = <<" ", "drawBot">> -> <<<<"drawBot">>, PyNone>>
      [] line = <<"Batch", " ", "#", "note">> -> <<<<"Batch">>, PyNone>>
      [] line = <<" ", "myExtension", " ", ">=", " ", "3.0", " ">> ->
            << <<"myExtension">>,
               PyTuple(<<"_requirementCompareVersionCompareEqualOrBigger",
                         <<"3.0">>,
                         <<"myExtension", " ", ">=", " ", "3.0">> >>) >>
      [] line = <<"myExtension", " ", "==", " ", "4.5", " ", "#", "note">> ->
            << <<"myExtension">>,
               PyTuple(<<"_requirementCompareVersionMustBeEqual", <<"4.5">>,
                         <<"myExtension", " ", "==", " ", "4.5">> >>) >>
      [] line = <<"drawBot", "==", "1.0">> ->
            << <<"drawBot">>,
               PyTuple(<<"_requirementCompareVersionMustBeEqual", <<"1.0">>,
                         <<"drawBot", "==", "1.0">> >>) >>

\* the lines of the grammar: a name, or a name with one constraint
InGrammar(text) ==
    \A i \in 1..Len(text) : text[i] # <<"Batch", "==", "1", "==", "2">>

\* the pairs expected of a text: the meaning of each line that names a
\* requirement not named by an earlier line, in the order of the lines
RECURSIVE Expected(_, _)
Expected(text, i) ==
    IF i > Len(text) THEN <<>>
    ELSE LET m == Meaning(text[i])
         IN  (IF m = <<>>
                 \/ \E j \in 1..(i - 1) :
                        Meaning(text[j]) # <<>> /\ Meaning(text[j])[1] = m[1]
              THEN <<>> ELSE <<m>>)
             \o Expected(text, i + 1)

\* C18: iterParseRequirements yields one pair per distinct name, in the
\* order of first appearance: blank lines and comments are skipped, inline
\* comments stripped, a bare name yields (name, None), a constrained name its
\* comparator, version and trimmed line.
C18_IterParseRequirements ==
    (call.op = "iterParseRequirements" /\ InGrammar(bundle.requirements)) =>
        /\ result.raised = ""
        /\ result.yielded = Expected(bundle.requirements, 1)

\* C18 happens: a text with a comment, a constrained name and a name that
\* comes twice was parsed
C18_Witness ==
    /\ call.op = "iterParseRequirements"
    /\ bundle.requirements =
            << <<" ", "#", "note">>,
               <<" ", "myExtension", " ", ">=", " ", "3.0", " ">>,
               <<"myExtension", " ", "==", " ", "4.5", " ", "#", "note">> >>
    /\ Len(result.yielded) = 1

\* C19: resolveRequirements returns a set for every text and every state of
\* the installed bundles (the set of the unmet requirements).
C19_ResolveReturnsUnmet ==
    call.op = "resolveRequirements" =>
        (pc = "idle" \/ ~InGrammar(bundle.requirements))

(***************************************************************************)
(* _installHelper of RoboFontExtensionBundle, the subclass of              *)
(* ExtensionBundle that checks a bundle before it is installed.            *)
(***************************************************************************)
\* the attributes of ExtensionBundle that are properties, and its methods
Properties ==
    {"bundlePath", "licensePath", "requirementsPath", "libFolder",
     "htmlFolder", "hashPath", "resourcesFolder", "infoPlistPath", "hasHTML",
     "hasDocumentation", "infoDictionary"}
Methods ==
    {"load", "save", "extensionHash", "unpack", "convertMarkdown",
     "validate", "validationErrors", "_installHelper", "install", "_install",
     "deinstall", "_deinstall"}

\* self.attr(): what calling the attribute raises.  A property gives its
\* value (a Path, a bool, a dict), and calling that value raises TypeError;
\* an attribute the class lacks raises AttributeError.
CallRaises(attr) ==
    IF attr \in Properties THEN "TypeError"
    ELSE IF attr \notin Methods THEN "AttributeError"
    ELSE ""

\* digest.hexdigest() as the text a .hash file holds
HexDigest(digest) == "<hexdigest " \o digest.sha1 \o ">"

\* datetime.strptime(expireDate, "%Y-%m-%d") < datetime.now()
ExpireDatePassed(s) == s = "2019-01-01"

\* _installHelper(verbose): the pair returned, the lines printed and the
\* exception raised.  walk is the order in which os.walk enumerates the
\* files for extensionHash; the .hash texts hold no white space to strip.
InstallHelper(b, files, walk, verbose) ==
    LET root == TreeAt(files, BundlePath(b))
        hasHashPath == root.exists /\ root.entry[".hash"].exists
        expireDate == b.expireDate
        Raised(e, lines) ==
            [raised |-> e, ok |-> FALSE, message |-> "", printed |-> lines]
        said(line) == IF verbose THEN <<line>> ELSE <<>>
        Fail(line, message) ==
            IF CallRaises("fileName") # ""
            THEN Raised(CallRaises("fileName"), said(line))
            ELSE [raised |-> "", ok |-> FALSE, message |-> message,
                  printed |-> said(line)]
    IN  IF CallRaises("bundlePath") # ""
        THEN Raised(CallRaises("bundlePath"), <<>>)
        ELSE IF ~(hasHashPath \/ Truthy(expireDate))
        THEN [raised |-> "", ok |-> TRUE, message |-> "", printed |-> <<>>]
        ELSE IF IsNone(expireDate)
        THEN Fail("Missing expireDate.", "Not a valid extension (%s)")
        ELSE IF ~hasHashPath
        THEN Fail("Missing hash.", "Not a valid extension (%s)")
        ELSE IF root.entry[".hash"].text
                    # HexDigest(ExtensionHash("roboFont.extension.hash", walk))
        THEN Fail("Hash does not match.", "Not a valid extension (%s)")
        ELSE IF ~IsStr(expireDate)
        THEN Raised("TypeError", <<>>)
        ELSE IF ~MatchesExpireDateFormat(expireDate.str)
        THEN Raised("ValueError", <<>>)
        ELSE IF ExpireDatePassed(expireDate.str)
        THEN Fail("Extension is expired.", "Extension is expired (%s)")
        ELSE [raised |-> "", ok |-> TRUE, message |-> "", printed |-> <<>>]

\* the bundles checked: no expireDate, one in the past, one in the future
InstallBundles ==
    {ExtensionBundle(RequiredFields
                     @@ [path |-> "A.roboFontExt", expireDate |-> d]) :
        d \in {PyNone, PyStr("2019-01-01"), PyStr("3000-01-01")}}

\* the trees checked: those that are hashed, the .hash file absent, stale,
\* or holding the digest of the tree
InstallTrees ==
    HashTrees
    \cup {[t EXCEPT !.entry[".hash"] =
                TextFile(HexDigest(ExtensionHash("roboFont.extension.hash",
                                                 SomeWalk(FilesOf(t)))))] :
            t \in {t \in HashTrees : t.entry[".hash"].exists}}

InstallInit ==
    /\ bundle \in InstallBundles
    /\ \E t \in InstallTrees :
            fs = [r \in Roots |-> IF r = "A.roboFontExt" THEN t ELSE NoTree]
    /\ tmp = NoTree
    /\ pc = "idle"
    /\ args = NoArgs
    /\ call = NoCall
    /\ result = "None"
    /\ now = 1
    /\ written = {}

\* bundle._installHelper(verbose)
InstallHelperCall(verbose, walk) ==
    /\ pc = "idle"
    /\ result' = InstallHelper(bundle, fs, walk, verbose)
    /\ call' = [op |-> "_installHelper", verbose |-> verbose] @@ NoCall
    /\ pc' = IF result'.raised = "" THEN "idle" ELSE "raised"
    /\ UNCHANGED <<bundle, fs, tmp, args, now, written>>

InstallNext ==
    \E verbose \in BOOLEAN, walk \in Enumerations(FilesOf(HashedRoot)) :
        InstallHelperCall(verbose, walk)

InstallSpec == InstallInit /\ [][InstallNext]_vars

\* the three failures of a bundle that carries an expireDate
Scenario(b, tree) ==
    LET stored == tree.entry[".hash"]
        digest == HexDigest(ExtensionHash("roboFont.extension.hash",
                                          SomeWalk(FilesOf(tree))))
    IN  IF ~Truthy(b.expireDate) THEN "none"
        ELSE IF ~stored.exists THEN "missing hash marker"
        ELSE IF stored.text # digest THEN "hash mismatch"
        ELSE IF ExpireDatePassed(b.expireDate.str) THEN "expired"
        ELSE "none"

\* what a check tells its caller: the message returned and the lines printed
Told(r) == <<r.message, r.printed>>

\* C20: the check of a bundle in one of the three failure scenarios returns,
\* and what it tells differs from what the check of any bundle in another of
\* the three scenarios tells.
C20_ThreeDistinctMessages ==
    (call.op = "_installHelper" /\ Scenario(bundle, HashedRoot) # "none") =>
        /\ result.raised = ""
        /\ \A b \in InstallBundles, t \in InstallTrees :
              Scenario(b, t) \notin {"none", Scenario(bundle, HashedRoot)} =>
                Told(result)
                  # Told(InstallHelper(b, [fs EXCEPT !["A.roboFontExt"] = t],
                                       SomeWalk(FilesOf(t)), call.verbose))

(***************************************************************************)
(* Save followed by the integrity check, as test_hash does it: a bundle    *)
(* with an expireDate is saved, _installHelper is called on it, a file is  *)
(* added to the lib folder of the saved tree and removed again.            *)
(***************************************************************************)
SaveCheckInit ==
    /\ \E d \in {PyStr("3000-01-01"), PyStr("2019-01-01")},
          l \in {"", "MIT"} :
            bundle = ExtensionBundle(RequiredFields
                                     @@ [expireDate |-> d, license |-> l])
    /\ fs = [r \in Roots |-> NoTree]
    /\ tmp = NoTree
    /\ pc = "idle"
    /\ args = NoArgs
    /\ call = NoCall
    /\ result = "None"
    /\ now = 1
    /\ written = {}

\* bundle._installHelper(verbose) on the bundle that was saved; the record
\* of the save is kept
InstallHelperAfterSave(verbose, walk) ==
    /\ pc = "idle"
    /\ call.destPath \in written
    /\ result' = InstallHelper(bundle, fs, walk, verbose)
    /\ call' = [op |-> "_installHelper", verbose |-> verbose] @@ call
    /\ pc' = IF result'.raised = "" THEN "idle" ELSE "raised"
    /\ UNCHANGED <<bundle, fs, tmp, args, now, written>>

\* open(os.path.join(path, "lib", "fileAdded.py"), "w").close()
AddFile ==
    /\ pc = "idle"
    /\ call.destPath \in written
    /\ "fileAdded.py" \notin DOMAIN fs[call.destPath].entry["lib"].files
    /\ fs' = [fs EXCEPT ![call.destPath].entry["lib"].files =
                            @ @@ ("fileAdded.py" :> "")]
    /\ call' = [call EXCEPT !.op = "addFile"]
    /\ UNCHANGED <<bundle, tmp, pc, args, result, now, written>>

\* os.remove(addedPath)
RemoveFile ==
    /\ pc = "idle"
    /\ call.destPath \in written
    /\ "fileAdded.py" \in DOMAIN fs[call.destPath].entry["lib"].files
    /\ fs' = [fs EXCEPT ![call.destPath].entry["lib"].files =
                            Restrict(@, DOMAIN @ \ {"fileAdded.py"})]
    /\ call' = [call EXCEPT !.op = "removeFile"]
    /\ UNCHANGED <<bundle, tmp, pc, args, result, now, written>>

SaveCheckNext ==
    \/ \E d \in Roots, f \in FolderArgs :
            /\ FolderAt(fs, f[1]).exists
            /\ SaveEnter(SaveArgs(d, f[1], f[2], f[3]))
    \/ SaveCopyLib
    \/ SaveCopyHtml
    \/ SaveCopyResources
    \/ SaveWritePlist
    \/ SaveWriteLicense
    \/ SaveWriteRequirements
    \/ SaveRemoveDest
    \/ SaveMakeDest
    \/ \E e \in Entries : SaveCopyEntry(e)
    \/ SaveRemoveTemp
    \/ SaveReturn
    \/ \E verbose \in BOOLEAN, walk \in Enumerations(FilesOf(HashedRoot)) :
            InstallHelperAfterSave(verbose, walk)
    \/ AddFile
    \/ RemoveFile

SaveCheckSpec == SaveCheckInit /\ [][SaveCheckNext]_vars

\* the tree without its .hash marker
WithoutHash(tree) == [tree EXCEPT !.entry[".hash"] = NoFile]

\* C21: right after a save with an expireDate in the future the .hash file
\* of the destination holds extensionHash('roboFont.extension.hash') of the
\* tree; and a check made after such a save returns, with success exactly
\* when the files of the destination are those that were saved.
C21_SaveThenIntegrityCheck ==
    LET dest == TreeAt(fs, call.destPath)
    IN  /\ (SaveCompleted /\ bundle.expireDate = PyStr("3000-01-01")) =>
            /\ dest.entry[".hash"].exists
            /\ dest.entry[".hash"].text =
                  HexDigest(ExtensionHash("roboFont.extension.hash",
                                          SomeWalk(FilesOf(dest))))
        /\ (call.op = "_installHelper"
                /\ bundle.expireDate = PyStr("3000-01-01")) =>
            /\ result.raised = ""
            /\ result.ok <=> WithoutHash(dest) = WithoutHash(call.staged)

(***************************************************************************)
(* unpack(destFolder).  The destination folder is held in tmp: whether it  *)
(* exists, its two yaml files and the folders under source/.               *)
(***************************************************************************)
NoDest ==
    [exists |-> FALSE, infoYaml |-> PyNone, buildYaml |-> PyNone,
     lib |-> NoDir, html |-> NoDir, resources |-> NoDir, stale |-> FALSE]
\* a destination left by an earlier run, with a file of its own
StaleDest ==
    [NoDest EXCEPT !.exists = TRUE, !.lib = Dir(("old.py" :> "old")),
                   !.stale = TRUE]

\* the dictionary dumped to build.yaml: the items of data that are truthy
BuildData(b) ==
    LET data == [libFolder |-> PyStr("source/lib"),
                 resourcesFolder |-> PyStr("source/resources"),
                 htmlFolder |-> PyStr("source/html"),
                 requirements |-> PyStr(b.requirements),
                 license |-> PyStr(b.license)]
    IN  PyDict(TruthyItems(data))

\* unpack(destFolder): the exception raised and the destination as it is
\* left.  The destination is removed and made again, the two yaml files are
\* written, then the folders are copied: lib always, html always (the Path
\* self.htmlFolder is truthy whether or not the folder exists), resources
\* when it exists; copytree raises FileNotFoundError on a missing source.
Unpack(b, files) ==
    LET lib == FolderAt(files, LibFolder(b))
        html == FolderAt(files, HtmlFolder(b))
        resources == FolderAt(files, ResourcesFolder(b))
        written0 == [NoDest EXCEPT !.exists = TRUE,
                                   !.infoYaml = PyDict(InfoDictionary(b)),
                                   !.buildYaml = BuildData(b)]
    IN  IF ~lib.exists
        THEN [raised |-> "FileNotFoundError", dest |-> written0]
        ELSE IF ~html.exists
        THEN [raised |-> "FileNotFoundError",
              dest |-> [written0 EXCEPT !.lib = lib]]
        ELSE [raised |-> "",
              dest |-> [written0 EXCEPT
                            !.lib = lib, !.html = html,
                            !.resources = IF resources.exists THEN resources
                                          ELSE NoDir]]

\* the trees unpacked: every combination of the three folders
UnpackTrees ==
    {[EmptyTree EXCEPT
        !.entry["lib"] = l, !.entry["html"] = h, !.entry["resources"] = r,
        !.entry["info.plist"] = PlistFile(InstalledPlist)] :
      l \in {NoDir, Dir(("main.py" :> "ok"))},
      h \in {NoDir, Dir(("index.html" :> "doc"))},
      r \in {NoDir, Dir(("icon.png" :> "png"))}}

UnpackInit ==
    /\ \E p \in {"A.roboFontExt", NoPath}, l \in {"", "MIT"},
          q \in {"", "drawBot"} :
            bundle = ExtensionBundle(RequiredFields
                        @@ [path |-> p, license |-> l, requirements |-> q])
    /\ \E t \in UnpackTrees :
            fs = [r \in Roots |-> IF r = "A.roboFontExt" THEN t ELSE NoTree]
    /\ tmp \in {NoDest, StaleDest}
    /\ pc = "idle"
    /\ args = NoArgs
    /\ call = NoCall
    /\ result = "None"
    /\ now = 1
    /\ written = {}

\* bundle.unpack(destFolder)
UnpackCall ==
    /\ pc = "idle"
    /\ tmp' = Unpack(bundle, fs).dest
    /\ result' = IF Unpack(bundle, fs).raised = "" THEN "None"
                 ELSE Unpack(bundle, fs).raised
    /\ pc' = IF Unpack(bundle, fs).raised = "" THEN "idle" ELSE "raised"
    /\ call' = [NoCall EXCEPT !.op = "unpack"]
    /\ UNCHANGED <<bundle, fs, args, now, written>>

UnpackSpec == UnpackInit /\ [][UnpackCall]_vars

\* C22: for a bundle whose lib folder exists unpack completes without
\* error, and the destination holds info.yaml, build.yaml, the lib folder as
\* it is in the bundle, and the html and the resources folder as they are in
\* the bundle exactly when the bundle has them.
C22_UnpackDecomposes ==
    (call.op = "unpack" /\ FolderAt(fs, LibFolder(bundle)).exists) =>
        /\ result = "None"
        /\ tmp.exists /\ ~tmp.stale
        /\ ~IsNone(tmp.infoYaml) /\ ~IsNone(tmp.buildYaml)
        /\ tmp.lib = FolderAt(fs, LibFolder(bundle))
        /\ tmp.html = FolderAt(fs, HtmlFolder(bundle))
        /\ tmp.resources = FolderAt(fs, ResourcesFolder(bundle))

(***************************************************************************)
(* The derived paths of a bundle.                                          *)
(***************************************************************************)
\* the fixed names of the derived paths
FixedSegments ==
    [lib |-> "lib", html |-> "html", resources |-> "resources",
     infoPlist |-> "info.plist", license |-> "license",
     requirements |-> "requirements.txt", hash |-> ".hash"]

\* the paths taken from the field path, without the name that stands in
\* for a bundle that has no path
DerivedPathsOfField(b) ==
    [k \in DOMAIN FixedSegments |-> FolderPath(b.path, FixedSegments[k])]

\* the properties of ExtensionBundle that are paths under the root
DerivedPaths(b) ==
    [lib |-> LibFolder(b), html |-> HtmlFolder(b),
     resources |-> ResourcesFolder(b),
     infoPlist |-> FolderPath(BundlePath(b), "info.plist"),
     license |-> FolderPath(BundlePath(b), "license"),
     requirements |-> FolderPath(BundlePath(b), "requirements.txt"),
     hash |-> FolderPath(BundlePath(b), ".hash")]

\* the values assigned to the fields of a bundle
FieldValues ==
    [path |-> Roots \cup {NoPath},
     extensionName |-> {PyNone, PyStr("ext"), PyStr("other")},
     version |-> {PyNone, PyStr("1.0")},
     license |-> {"", "MIT"}]

PathsInit ==
    /\ \E p \in FieldValues.path, n \in FieldValues.extensionName :
            bundle = ExtensionBundle([extensionName |-> n, path |-> p])
    /\ fs = [r \in Roots |-> NoTree]
    /\ tmp = NoTree
    /\ pc = "idle"
    /\ args = NoArgs
    /\ call = NoCall
    /\ result = "None"
    /\ now = 1
    /\ written = {}

\* bundle.<field> = value
SetField(field, value) ==
    /\ bundle[field] # value
    /\ bundle' = [bundle EXCEPT ![field] = value]
    /\ call' = [NoCall EXCEPT !.op = "setattr", !.error = field]
    /\ UNCHANGED <<fs, tmp, pc, args, result, now, written>>

PathsNext ==
    \E field \in DOMAIN FieldValues :
        \E value \in FieldValues[field] : SetField(field, value)

PathsSpec == PathsInit /\ [][PathsNext]_vars

LegacyInit ==
    /\ \E n \in {PyNone, PyStr("test"), PyStr("drawBot")},
          p \in Roots \cup {NoPath}, l \in {"lib", "myLibName"},
          h \in {"html", "myHTMLName"},
          r \in {"resources", "myResourcesName"} :
            args = [name |-> n, path |-> p, libName |-> l, htmlName |-> h,
                    resourcesName |-> r]
    /\ bundle = PyNone
    /\ fs = [r \in Roots |-> NoTree]
    /\ tmp = NoTree
    /\ pc = "idle"
    /\ call = NoCall
    /\ result = "None"
    /\ now = 1
    /\ written = {}

\* bundle = ExtensionBundle(**args)
LegacyConstructCall ==
    /\ pc = "idle"
    /\ call.op = "none"
    /\ result' = LegacyConstruct(args)
    /\ call' = [NoCall EXCEPT !.op = "ExtensionBundle"]
    /\ pc' = IF result'.raised = "" THEN "idle" ELSE "raised"
    /\ UNCHANGED <<bundle, fs, tmp, args, now, written>>

LegacySpec == LegacyInit /\ [][LegacyConstructCall]_vars

\* C24: a bundle of _extensionBundle.py constructed without a path exists,
\* is unbound (so that validate returns false), and its infoDictionary
\* holds the attributes assigned so far and no other key: none, right after
\* the construction.
C24_InfoDictionaryOfAssignments ==
    (call.op = "ExtensionBundle" /\ args.path = NoPath) =>
        /\ result.raised = ""
        /\ result.bundlePath = NoPath
        /\ result.infoDictionary = PyDict(<<>>)

(***************************************************************************)
(* The first checks of validate on their own: bundles bound to a root with *)
(* the bundle suffix, to a directory with another suffix, and unbound.     *)
(***************************************************************************)
GateInit ==
    /\ \E kw \in ConstructorArgs, p \in Roots \cup {"C.zip", NoPath},
          t \in ValidateTrees :
            /\ bundle = ExtensionBundle(kw @@ [path |-> p])
            /\ fs = [r \in Roots \cup {"C.zip"} |->
                        IF r = p THEN t ELSE NoTree]
    /\ tmp = NoTree
    /\ pc = "idle"
    /\ args = NoArgs
    /\ call = NoCall
    /\ result = "None"
    /\ now = 1
    /\ written = {}

GateSpec == GateInit /\ [][ValidateCall]_vars

\* the tree at the root of the bundle, in a file system that holds
\* directories of any suffix
RootTree ==
    IF BundlePath(bundle) \in DOMAIN fs THEN fs[BundlePath(bundle)] ELSE NoTree

\* validate was called on a bundle that fails one of the two existence
\* checks
GateFails ==
    /\ call.op = "validate"
    /\ \/ ~RootTree.exists
       \/ ~RootTree.entry["info.plist"].exists
       \/ ~RootTree.entry["info.plist"].parses

\* the message of the existence check that fails
GateMessage ==
    IF ~RootTree.exists THEN MustBeSaved
    ELSE IF ~RootTree.entry["info.plist"].exists THEN NoInfoPlist
    ELSE UnreadableInfoPlist

\* past the two existence checks the later checks run whatever the earlier
\* ones found
LaterChecksRun ==
    (call.op = "validate" /\ ~GateFails /\ result \in {"True", "False"}) =>
        /\ Suffix(BundlePath(bundle)) # fileExtension => WrongSuffix \in Reported
        /\ Missing(bundle.extensionName) =>
                Reported \cap {"Extension name should be a string",
                               "Extension name cannot be an empty string"} # {}
        /\ ~RootTree.entry["lib"].exists =>
                "Lib folder does not exist, this is required." \in Reported

\* C25 as stated: when the root does not exist, or info.plist is absent or
\* does not parse, validate returns false with exactly one error; past the
\* two checks the later checks run.
C25_GateReportsOneError ==
    /\ GateFails => (result = "False" /\ bundle.errors = <<GateMessage>>)
    /\ LaterChecksRun

\* C25, amended: when the root does not exist validate returns false with
\* that one error; when info.plist is absent or does not parse it returns
\* false with that error, preceded by the suffix error when the root has
\* another suffix than .roboFontExt, and with no error of a later check;
\* past the two checks the later checks run.
C25_GateStopsValidation ==
    /\ GateFails =>
        /\ result = "False"
        /\ bundle.errors =
            IF RootTree.exists /\ Suffix(BundlePath(bundle)) # fileExtension
            THEN <<WrongSuffix, GateMessage>> ELSE <<GateMessage>>
    /\ LaterChecksRun

\* C25 happens: validate was called on a bundle bound to a directory of
\* another suffix, without info.plist
C25_Witness ==
    /\ call.op = "validate"
    /\ bundle.path = "C.zip"
    /\ RootTree.exists /\ ~RootTree.entry["info.plist"].exists
    /\ Len(bundle.errors) = 2

(***************************************************************************)
(* The shortKey of a menu entry, in a bundle constructed in memory and in  *)
(* the bundle loaded from what save wrote for it.                          *)
(***************************************************************************)
\* the values of shortKey (NoShortKey: the entry has no such key)
NoShortKey == [absent |-> TRUE]

ShortKeys ==
    {NoShortKey, PyStr(""), PyStr("t"), PyTuple(<<PyInt(1), PyStr("t")>>),
     PyTuple(<<PyInt(1), PyStr("t"), PyStr("u")>>), PyTuple(<<>>),
     PyList(<<PyInt(1), PyStr("t")>>), PyInt(5)}

MenuEntryWith(shortKey) ==
    IF shortKey = NoShortKey
    THEN PyDict([path |-> PyStr("main.py"), preferredName |-> PyStr("Tool")])
    ELSE PyDict([path |-> PyStr("main.py"), preferredName |-> PyStr("Tool"),
                 shortKey |-> shortKey])

MenuInit ==
    /\ \E k \in ShortKeys, flag \in BOOLEAN :
            bundle = ExtensionBundle(
                RequiredFields
                @@ [path |-> "A.roboFontExt",
                    launchAtStartUp |-> PyBool(flag),
                    mainScript |-> PyStr("main.py"), html |-> PyBool(flag),
                    addToMenu |-> PyList(<<MenuEntryWith(k)>>)])
    /\ fs = [r \in Roots |-> IF r = "A.roboFontExt" THEN InstalledTree
                             ELSE NoTree]
    /\ tmp = NoTree
    /\ pc = "idle"
    /\ args = NoArgs
    /\ call = NoCall
    /\ result = "None"
    /\ now = 1
    /\ written = {}

MenuNext ==
    \/ \E d \in Roots : SaveEnter(SaveArgs(d, NoFolder, NoFolder, NoFolder))
    \/ SaveCopyLib
    \/ SaveCopyHtml
    \/ SaveCopyResources
    \/ SaveWritePlist
    \/ SaveWriteLicense
    \/ SaveWriteRequirements
    \/ SaveRemoveDest
    \/ SaveMakeDest
    \/ \E e \in Entries : SaveCopyEntry(e)
    \/ SaveRemoveTemp
    \/ SaveReturn
    \/ \E p \in Roots : LoadCall(p)
    \/ ValidateCall

MenuSpec == MenuInit /\ [][MenuNext]_vars

\* a (modifier, character) pair, as a tuple or as the array a property list
\* gives back for it
IsPair(x) ==
    \/ IsTuple(x) /\ Len(x.tuple) = 2
    \/ IsList(x) /\ Len(x.list) = 2

\* the shortKey of the entry is text or a pair
ShortKeyAccepted(entry) ==
    /\ "shortKey" \in DOMAIN entry.dict
    /\ IsStr(entry.dict["shortKey"]) \/ IsPair(entry.dict["shortKey"])

\* C26: validate reports a shortKey error for the entry of addToMenu exactly
\* when its shortKey is missing or is neither text nor a pair, for the bundle
\* constructed in memory and for the bundle loaded from what save wrote.
C26_ShortKeyChecked ==
    (call.op = "validate" /\ result \in {"True", "False"}
        /\ RootTree.exists /\ RootTree.entry["info.plist"].parses
        /\ IsList(bundle.addToMenu) /\ Len(bundle.addToMenu.list) = 1) =>
        (Reported \cap {"shortKey missing from Add to Menu dictionary",
                        "Add to Menu shortKey should be a str or a tuple"} # {}
            <=> ~ShortKeyAccepted(bundle.addToMenu.list[1]))

(***************************************************************************)
(* The flag fields html and launchAtStartUp under validate.                *)
(***************************************************************************)
\* values a caller can give to a flag field
FlagValues ==
    {PyNone, PyBool(FALSE), PyBool(TRUE), PyInt(0), PyInt(1), PyInt(2),
     PyStr(""), PyStr("yes"), PyFloat(0), PyList(<<>>)}

FlagInit ==
    /\ \E h \in FlagValues, l \in FlagValues,
          t \in {InstalledTree, ScriptsTree} :
            /\ bundle = ExtensionBundle(
                    RequiredFields
                    @@ [path |-> "A.roboFontExt", html |-> h,
                        launchAtStartUp |-> l])
            /\ fs = [r \in Roots |-> IF r = "A.roboFontExt" THEN t ELSE NoTree]
    /\ tmp = NoTree
    /\ pc = "idle"
    /\ args = NoArgs
    /\ call = NoCall
    /\ result = "None"
    /\ now = 1
    /\ written = {}

FlagSpec == FlagInit /\ [][ValidateCall]_vars

\* the messages validate has for the flag field k (the second without the
\* quotes the code puts around the name)
FlagMessages(k) ==
    {AttributeRepr(k) \o " should be a (bool, int)",
     k \o " can be an int, but it should be either 0 or 1"}

\* a value that is present and is neither a boolean nor the integer 0 or 1
NotAFlag(x) ==
    ~IsNone(x) /\ x \notin {PyBool(FALSE), PyBool(TRUE), PyInt(0), PyInt(1)}

\* C27: validate reports an error for html (launchAtStartUp) exactly when its
\* value is present and is neither a boolean nor the integer 0 or 1.
C27_FlagsChecked ==
    (call.op = "validate" /\ result \in {"True", "False"}) =>
        \A k \in {"html", "launchAtStartUp"} :
            (Reported \cap FlagMessages(k) # {}) <=> NotAFlag(bundle[k])

\* C28: _installHelper never raises: whatever the expireDate and the .hash
\* file of the bundle, the call returns a (success, message) pair, and a
\* bundle in one of the failure scenarios is reported with success false and
\* a message.
C28_InstallHelperNeverRaises ==
    call.op = "_installHelper" =>
        /\ pc = "idle"
        /\ result.raised = ""
        /\ Scenario(bundle, HashedRoot) # "none" =>
                (~result.ok /\ result.message # "")

\* C29: a bundle loaded from a tree with a non-empty .hash file can be saved
\* elsewhere: a save of it to a path other than its root, with a valid suffix
\* and a lib folder that exists, passes the assertions of save.
C29_LoadedHashedBundleSaves ==
    (call.op = "save" /\ bundle.hash # ""
        /\ call.destPath # call.bound
        /\ Suffix(call.destPath) = fileExtension
        /\ call.error # "Lib folder is required to save") => call.passed

(***************************************************************************)
(* _install of RoboFontExtensionBundle: the bundle is validated, checked   *)
(* by _installHelper and copied to the install location, where an          *)
(* extension of the same file name may be installed already.               *)
(***************************************************************************)
\* os.path.join(applicationPluginRootPath, self.fileName()): the second root
\* stands for the place of the extension in the plugin folder
InstallPath == "B.roboFontExt"

\* what askReinstallDeinstall returns: reinstall, uninstall, cancel
Answers == {0, 1, 2}

\* _install(showMessages).  value is the answer of the user, appOlder whether
\* the version of the application is below the one required, unmet whether
\* resolveRequirements has a requirement left.  files is the file system the
\* call leaves, errors the errors validate has set in the bundle.
Install(b, files, showMessages, value, appOlder, unmet) ==
    LET v == Validate(b, files)
        helper ==
            InstallHelper(b, files,
                          SomeWalk(FilesOf(TreeAt(files, BundlePath(b)))),
                          TRUE)
        Out(e, ok, message, fl) ==
            [raised |-> e, ok |-> ok, message |-> message, files |-> fl,
             errors |-> v.errors]
        \* a return whose message is formatted with self.fileName()
        Return(ok, message, fl) ==
            IF CallRaises("fileName") # ""
            THEN Out(CallRaises("fileName"), FALSE, "", fl)
            ELSE Out("", ok, message, fl)
        installed == files[InstallPath].exists
        answer == IF showMessages THEN value ELSE 0
        \* otherBundle.deinstall(): rmtree of the install path
        removed == [files EXCEPT ![InstallPath] = NoTree]
        reinstalling == IF installed /\ answer = 0 THEN removed ELSE files
        copied ==
            [reinstalling EXCEPT
                ![InstallPath] = TreeAt(files, BundlePath(b))]
    IN  IF v.raised # "" THEN Out(v.raised, FALSE, "", files)
        ELSE IF v.errors # <<>>
        THEN Return(FALSE, "Not a valid extension (%s)", files)
        ELSE IF helper.raised # "" THEN Out(helper.raised, FALSE, "", files)
        ELSE IF ~helper.ok THEN Out("", FALSE, helper.message, files)
        ELSE IF CallRaises("fileName") # ""
        THEN Out(CallRaises("fileName"), FALSE, "", files)
        ELSE IF CallRaises("bundlePath") # ""
        THEN Out(CallRaises("bundlePath"), FALSE, "", files)
        ELSE IF InstallPath = BundlePath(b)
        THEN Out("", FALSE,
                 "Cannot install the same extension from the same destination. (%s)",
                 files)
        ELSE IF installed /\ answer = 1
        THEN Out("", TRUE, "Extension '%s' is uninstalled", removed)
        ELSE IF installed /\ answer # 0
        THEN Out("", TRUE, "", files)
        ELSE IF ~IsNone(b.requiresVersionMajor)
                /\ ~IsNone(b.requiresVersionMinor) /\ appOlder
        THEN Out("", FALSE, "Extension '%s' requires %s %s", reinstalling)
        ELSE IF CallRaises("resolveRequirements") # ""
        THEN Out(CallRaises("resolveRequirements"), FALSE, "", reinstalling)
        ELSE IF unmet
        THEN Out("", FALSE,
                 "Extension %s requires other extensions to be installed",
                 reinstalling)
        ELSE Out("", TRUE, "Done installing '%s' (version %s).", copied)

\* the bundles installed: valid or without a developer, with and without an
\* expireDate and a required version
InstallerInit ==
    /\ \E kw \in {RequiredFields,
                  [RequiredFields EXCEPT !.developer = PyStr("")]},
          p \in Roots, d \in {PyNone, PyStr("3000-01-01")},
          rv \in {PyNone, PyStr("4")},
          source \in {NoTree, InstalledTree, HashedTree},
          present \in {NoTree, InstalledTree} :
            /\ bundle = ExtensionBundle(
                    kw @@ [path |-> p, expireDate |-> d,
                           requiresVersionMajor |-> rv,
                           requiresVersionMinor |-> rv])
            /\ fs = [r \in Roots |->
                        IF r = InstallPath THEN present ELSE source]
    /\ tmp = NoTree
    /\ pc = "idle"
    /\ args = NoArgs
    /\ call = NoCall
    /\ result = "None"
    /\ now = 1
    /\ written = {}

\* bundle._install(showMessages)
InstallCall(showMessages, value, appOlder, unmet) ==
    /\ pc = "idle"
    /\ \E r \in {Install(bundle, fs, showMessages, value, appOlder, unmet)} :
           /\ result' = [raised |-> r.raised, ok |-> r.ok,
                         message |-> r.message]
           /\ fs' = r.files
           /\ bundle' = [bundle EXCEPT !.errors = r.errors]
           /\ pc' = IF r.raised = "" THEN "idle" ELSE "raised"
    /\ call' = [NoCall EXCEPT !.op = "_install",
                              !.old = TreeAt(fs, InstallPath)]
    /\ UNCHANGED <<tmp, args, now, written>>

InstallerNext ==
    \E showMessages \in BOOLEAN, value \in Answers, appOlder \in BOOLEAN,
       unmet \in BOOLEAN :
        InstallCall(showMessages, value, appOlder, unmet)

InstallerSpec == InstallerInit /\ [][InstallerNext]_vars

\* C30: a failed _install leaves the install location as it was: _install of
\* an invalid bundle returns success false, and whenever _install returns
\* success false the extension that was installed at the install path before
\* the call is still there.
C30_FailedInstallKeepsInstalled ==
    call.op = "_install" =>
        /\ ~ValidateOk(bundle, fs) => (result.raised = "" /\ ~result.ok)
        /\ (result.raised = "" /\ ~result.ok /\ call.old.exists) =>
                fs[InstallPath] = call.old

=============================================================================
